---- MODULE Spec2Model ----
(***************************************************************************)
(* Model of the recraft-mcp-server argument validation layer (the Zod      *)
(* schemas of src/schemas), the validator (validateSchema and friends),    *)
(* the two handler layers (ToolHandlers, RecraftHandlers), the upstream    *)
(* client (RecraftApi) and the tool dispatchers registered on the server.  *)
(*                                                                         *)
(* JavaScript values are tagged records:                                   *)
(*   [t |-> "undefined"]                 an absent key / undefined         *)
(*   [t |-> "number", m |-> M, e |-> E]  the finite number M / 10^E        *)
(*   [t |-> "nan"]                       NaN (typeof "number")             *)
(*   [t |-> "string", s |-> <<chars>>]   a string, one character per item  *)
(*   [t |-> "boolean", b |-> B]                                            *)
(*   [t |-> "buffer"]                    binary payload                    *)
(*   [t |-> "object", ...]               nested object (controls, colour)  *)
(***************************************************************************)
EXTENDS Integers, Sequences, FiniteSets, TLC

(***************************************************************************)
(* Bounds of the explored input space.                                     *)
(***************************************************************************)
MaxStrLen == 3
MaxMant == 8
MaxFrac == 1

(***************************************************************************)
(* Program constants.                                                      *)
(***************************************************************************)
Radix == 10
MinN == 1
MaxN == 6
MinStrength == 0
MaxStrength == 1
MinArtistic == 0
MaxArtistic == 5
MinChannel == 0
MaxChannel == 255

(***************************************************************************)
(* Values.                                                                 *)
(***************************************************************************)
Undef == [t |-> "undefined"]
NaN == [t |-> "nan"]
Buf == [t |-> "buffer"]
Str(s) == [t |-> "string", s |-> s]
Bool(b) == [t |-> "boolean", b |-> b]

RECURSIVE Pow(_, _)
Pow(b, k) == IF k = 0 THEN 1 ELSE b * Pow(b, k - 1)

\* The number m / Radix^e in lowest terms of the radix (no trailing zero
\* fraction digit), so that equal numbers are equal records.
RECURSIVE Num(_, _)
Num(m, e) ==
  IF e > 0 /\ m % Radix = 0 THEN Num(m \div Radix, e - 1)
  ELSE [t |-> "number", m |-> m, e |-> e]

IsNum(v) == v.t = "number"
IsStr(v) == v.t = "string"
NumIsInt(v) == v.e = 0
NumGE(v, c) == v.m >= c * Pow(Radix, v.e)
NumLE(v, c) == v.m <= c * Pow(Radix, v.e)

Digits == {"0", "1", "2", "3", "4", "5", "6", "7", "8", "9"}
DigitVal(c) ==
  CASE c = "0" -> 0 [] c = "1" -> 1 [] c = "2" -> 2 [] c = "3" -> 3
    [] c = "4" -> 4 [] c = "5" -> 5 [] c = "6" -> 6 [] c = "7" -> 7
    [] c = "8" -> 8 [] c = "9" -> 9
DigitChar(d) ==
  CASE d = 0 -> "0" [] d = 1 -> "1" [] d = 2 -> "2" [] d = 3 -> "3"
    [] d = 4 -> "4" [] d = 5 -> "5" [] d = 6 -> "6" [] d = 7 -> "7"
    [] d = 8 -> "8" [] d = 9 -> "9"

\* --- string scanning helpers used by parseInt / parseFloat ---------------
RECURSIVE TrimLeft(_)
TrimLeft(s) == IF s # <<>> /\ Head(s) = " " THEN TrimLeft(Tail(s)) ELSE s

RECURSIVE DigitPrefixLen(_)
DigitPrefixLen(s) ==
  IF s # <<>> /\ Head(s) \in Digits THEN 1 + DigitPrefixLen(Tail(s)) ELSE 0

RECURSIVE DigitsValue(_, _)
DigitsValue(s, acc) ==
  IF s = <<>> THEN acc ELSE DigitsValue(Tail(s), acc * Radix + DigitVal(Head(s)))

Drop(s, k) == SubSeq(s, k + 1, Len(s))
Take(s, k) == SubSeq(s, 1, k)

SignOf(s) == IF s # <<>> /\ Head(s) = "-" THEN -1 ELSE 1
SkipSign(s) == IF s # <<>> /\ Head(s) \in {"-", "+"} THEN Tail(s) ELSE s

\* parseInt(str, 10): leading white space and one sign are skipped, the
\* longest run of decimal digits is read, anything after it is ignored;
\* no digit at all gives NaN.
ParseInt(s) ==
  LET body == SkipSign(TrimLeft(s))
      k == DigitPrefixLen(body)
  IN IF k = 0 THEN NaN
     ELSE Num(SignOf(TrimLeft(s)) * DigitsValue(Take(body, k), 0), 0)

\* parseFloat(str): leading white space and one sign are skipped, then the
\* longest prefix of the form digits [ "." digits ] or "." digits is read;
\* no such prefix gives NaN.  (Exponents and "Infinity" need characters
\* outside the explored alphabet.)
ParseFloat(s) ==
  LET body == SkipSign(TrimLeft(s))
      k == DigitPrefixLen(body)
      rest == Drop(body, k)
      hasDot == rest # <<>> /\ Head(rest) = "."
      f == IF hasDot THEN DigitPrefixLen(Tail(rest)) ELSE 0
      frac == IF hasDot THEN Take(Tail(rest), f) ELSE <<>>
  IN IF k = 0 /\ f = 0 THEN NaN
     ELSE Num(SignOf(TrimLeft(s)) * DigitsValue(Take(body, k) \o frac, 0), f)

\* Number.prototype.toString for the finite decimals of the model: the
\* "string form" of a number.
RECURSIVE NatDigits(_)
NatDigits(k) ==
  IF k < Radix THEN <<DigitChar(k)>>
  ELSE NatDigits(k \div Radix) \o <<DigitChar(k % Radix)>>

RECURSIVE FracDigits(_, _)
FracDigits(k, width) ==
  IF width = 0 THEN <<>>
  ELSE FracDigits(k \div Radix, width - 1) \o <<DigitChar(k % Radix)>>

NumToStr(v) ==
  LET a == IF v.m < 0 THEN -v.m ELSE v.m
      p == Pow(Radix, v.e)
  IN (IF v.m < 0 THEN <<"-">> ELSE <<>>)
     \o NatDigits(a \div p)
     \o (IF v.e = 0 THEN <<>> ELSE <<".">> \o FracDigits(a % p, v.e))

(***************************************************************************)
(* Zod parse results: status "valid" | "dirty" | "aborted", the output     *)
(* value, and the issues raised (path, code, message) in order.            *)
(***************************************************************************)
Issue(path, code, message) == [path |-> path, code |-> code, message |-> message]
Valid(v) == [status |-> "valid", value |-> v, issues |-> <<>>]
Dirty(v, issues) == [status |-> "dirty", value |-> v, issues |-> issues]
Aborted(issues) == [status |-> "aborted", value |-> Undef, issues |-> issues]

TypeName(v) == IF v.t = "buffer" THEN "object" ELSE v.t

InvalidType(path, expected, v) ==
  Aborted(<<Issue(path, "invalid_type",
                  IF v.t = "undefined" THEN "Required"
                  ELSE "Expected " \o expected \o ", received " \o TypeName(v))>>)

\* z.number()[.int()].min(lo).max(hi): NaN and non-numbers are a type
\* error; every failed check adds an issue and marks the result dirty.
ZNumber(path, v, int, lo, hi) ==
  IF ~IsNum(v) THEN InvalidType(path, "number", v)
  ELSE LET i1 == IF int /\ ~NumIsInt(v)
                 THEN <<Issue(path, "invalid_type", "Expected integer, received float")>>
                 ELSE <<>>
           i2 == IF ~NumGE(v, lo)
                 THEN <<Issue(path, "too_small", "Number must be greater than or equal to " \o ToString(lo))>>
                 ELSE <<>>
           i3 == IF ~NumLE(v, hi)
                 THEN <<Issue(path, "too_big", "Number must be less than or equal to " \o ToString(hi))>>
                 ELSE <<>>
       IN IF i1 \o i2 \o i3 = <<>> THEN Valid(v) ELSE Dirty(v, i1 \o i2 \o i3)

\* z.string().transform(parseInt(., 10)) and z.string().transform(parseFloat):
\* the transform's output is returned unchecked.
ZStringToInt(path, v) ==
  IF ~IsStr(v) THEN InvalidType(path, "string", v) ELSE Valid(ParseInt(v.s))

ZStringToFloat(path, v) ==
  IF ~IsStr(v) THEN InvalidType(path, "string", v) ELSE Valid(ParseFloat(v.s))

\* z.union([a, b]): the first valid option wins, else the first dirty
\* option is returned with its issues, else one invalid_union issue.
ZUnion(path, ra, rb) ==
  IF ra.status = "valid" THEN ra
  ELSE IF rb.status = "valid" THEN rb
  ELSE IF ra.status = "dirty" THEN ra
  ELSE IF rb.status = "dirty" THEN rb
  ELSE Aborted(<<Issue(path, "invalid_union", "Invalid input")>>)

\* schema.optional(): undefined is accepted as is.
ZOptional(v, r) == IF v = Undef THEN Valid(Undef) ELSE r

\* The n field of Generate/ImageToImage/Inpaint/ReplaceBackground args.
NField(v) ==
  ZOptional(v, ZUnion(<<"n">>, ZNumber(<<"n">>, v, TRUE, MinN, MaxN),
                               ZStringToInt(<<"n">>, v)))

\* The strength field of ImageToImageArgsSchema (required).
StrengthField(v) ==
  ZUnion(<<"strength">>, ZNumber(<<"strength">>, v, FALSE, MinStrength, MaxStrength),
                         ZStringToFloat(<<"strength">>, v))

(***************************************************************************)
(* Vocabulary tables.  Enumerated tokens are opaque texts                  *)
(* [t |-> "string", k |-> token]; strings whose characters the code scans  *)
(* (numeric strings, paths, URLs) are Str(<<chars>>).                      *)
(***************************************************************************)
Txt(k) == [t |-> "string", k |-> k]
IsTxt(v) == v.t = "string" /\ "k" \in DOMAIN v
StrIsEmpty(v) == IF IsTxt(v) THEN v.k = "" ELSE v.s = <<>>

Range(f) == {f[i] : i \in DOMAIN f}

RecraftStyleV3 ==
  <<"any", "realistic_image", "digital_illustration", "vector_illustration",
    "icon", "logo_raster">>

RealisticImageSubstyleV3 ==
  <<"b_and_w", "enterprise", "evening_light", "faded_nostalgia", "forest_life",
    "hard_flash", "hdr", "motion_blur", "mystic_naturalism", "natural_light",
    "natural_tones", "organic_calm", "real_life_glow", "retro_realism",
    "retro_snapshot", "studio_portrait", "urban_drama", "village_realism",
    "warm_folk">>

DigitalIllustrationSubstyleV3 ==
  <<"2d_art_poster", "2d_art_poster_2", "antiquarian", "bold_fantasy",
    "child_book", "child_books", "cover", "crosshatch", "digital_engraving",
    "engraving_color", "expressionism", "freehand_details", "grain", "grain_20",
    "graphic_intensity", "hand_drawn", "hand_drawn_outline", "handmade_3d",
    "hard_comics", "infantile_sketch", "long_shadow", "modern_folk",
    "multicolor", "neon_calm", "noir", "nostalgic_pastel", "outline_details",
    "pastel_gradient", "pastel_sketch", "pixel_art", "plastic", "pop_art",
    "pop_renaissance", "seamless", "street_art", "tablet_sketch", "urban_glow",
    "urban_sketching", "vanilla_dreams", "young_adult_book",
    "young_adult_book_2">>

VectorIllustrationSubstyleV3 ==
  <<"bold_stroke", "chemistry", "colored_stencil", "contour_pop_art", "cosmics",
    "cutout", "depressive", "editorial", "emotional_flat", "engraving",
    "infographical", "line_art", "line_circuit", "linocut", "marker_outline",
    "mosaic", "naivector", "roundish_flat", "seamless", "segmented_colors",
    "sharp_contrast", "thin", "vector_photo", "vivid_shapes">>

LogoRasterSubstyleV3 ==
  <<"emblem_graffiti", "emblem_pop_art", "emblem_punk", "emblem_stamp",
    "emblem_vintage">>

RecraftImageSize ==
  <<"1024x1024", "1365x1024", "1024x1365", "1536x1024", "1024x1536",
    "1820x1024", "1024x1820", "1024x2048", "2048x1024", "1434x1024",
    "1024x1434", "1024x1280", "1280x1024", "1024x1707", "1707x1024">>


RECURSIVE JoinWith(_, _)
JoinWith(seq, sep) ==
  IF seq = <<>> THEN ""
  ELSE IF Len(seq) = 1 THEN seq[1]
  ELSE seq[1] \o sep \o JoinWith(Tail(seq), sep)

Quoted(seq) == [i \in DOMAIN seq |-> "'" \o seq[i] \o "'"]

(***************************************************************************)
(* Zod primitives for strings, booleans, enums and binary payloads.        *)
(***************************************************************************)
ZString(path, v) ==
  IF ~IsStr(v) THEN InvalidType(path, "string", v) ELSE Valid(v)

\* z.string().min(1, message)
ZStringMin1(path, v, message) ==
  IF ~IsStr(v) THEN InvalidType(path, "string", v)
  ELSE IF StrIsEmpty(v) THEN Dirty(v, <<Issue(path, "too_small", message)>>)
  ELSE Valid(v)

ZBoolean(path, v) ==
  IF v.t # "boolean" THEN InvalidType(path, "boolean", v) ELSE Valid(v)

\* z.enum([...]): a non-member aborts with invalid_enum_value, which
\* records the received value.
ZEnum(path, v, vocab) ==
  IF ~IsStr(v)
  THEN InvalidType(path, JoinWith(Quoted(vocab), " | "), v)
  ELSE IF IsTxt(v) /\ v.k \in Range(vocab) THEN Valid(v)
  ELSE Aborted(<<[path |-> path, code |-> "invalid_enum_value",
                  message |-> "Invalid enum value. Expected "
                              \o JoinWith(Quoted(vocab), " | ")
                              \o ", received '"
                              \o (IF IsTxt(v) THEN v.k ELSE "?") \o "'",
                  received |-> v]>>)

\* RecraftSubstyleV3Schema: z.union of the four V3 substyle enums.
SubstyleField(path, v) ==
  ZUnion(path,
    ZUnion(path, ZEnum(path, v, RealisticImageSubstyleV3),
                 ZEnum(path, v, DigitalIllustrationSubstyleV3)),
    ZUnion(path, ZEnum(path, v, VectorIllustrationSubstyleV3),
                 ZEnum(path, v, LogoRasterSubstyleV3)))

\* isBufferOrFile: a Buffer, a File, an object with a "buffer" key, or any
\* string.
isBufferOrFile(v) == v.t \in {"buffer", "string"}

\* BufferOrFileSchema = z.custom(isBufferOrFile, {message}): a failed check
\* is a non-fatal custom issue, for undefined as for any other value.
BufferOrFileSchema(path, v) ==
  IF isBufferOrFile(v) THEN Valid(v)
  ELSE Dirty(v, <<Issue(path, "custom", "Must be a Buffer, File, or string path")>>)

StartsWithSlash(v) == ~IsTxt(v) /\ v.s # <<>> /\ Head(v.s) = "/"

Letters == {"a", "g", "h", "n", "p", "s", "t", "x"}
RECURSIVE LetterPrefixLen(_)
LetterPrefixLen(s) ==
  IF s # <<>> /\ Head(s) \in Letters THEN 1 + LetterPrefixLen(Tail(s)) ELSE 0

\* z.string().url() accepts what `new URL(value)` parses: a scheme of
\* letters, a colon, and something after it.
IsUrl(v) ==
  /\ ~IsTxt(v)
  /\ LET k == LetterPrefixLen(v.s)
     IN k >= 1 /\ Len(v.s) > k + 1 /\ v.s[k + 1] = ":"

ZStringUrl(path, v) ==
  IF ~IsStr(v) THEN InvalidType(path, "string", v)
  ELSE IF ~IsUrl(v) THEN Dirty(v, <<Issue(path, "invalid_string", "Invalid url")>>)
  ELSE Valid(v)

\* GenerateImageArgsSchema.file_path without the refinement: any non-empty
\* string passes.
GenerateFilePath_AnyPath(path, v) == ZStringMin1(path, v, "File path cannot be empty")

\* GenerateImageArgsSchema.file_path:
\*   z.string().min(1, ..).refine(p => !p || p.startsWith("/"), ..)
GenerateFilePath(path, v) ==
  IF ~IsStr(v) THEN InvalidType(path, "string", v)
  ELSE LET i1 == IF StrIsEmpty(v)
                 THEN <<Issue(path, "too_small", "File path cannot be empty")>>
                 ELSE <<>>
           i2 == IF ~(StrIsEmpty(v) \/ StartsWithSlash(v))
                 THEN <<Issue(path, "custom", "File path must be absolute (start with '/')")>>
                 ELSE <<>>
       IN IF i1 \o i2 = <<>> THEN Valid(v) ELSE Dirty(v, i1 \o i2)

\* SaveImageToDiskArgsSchema.file_path:
\*   z.string().min(1, ..).refine(p => p.startsWith("/"), ..)
SaveFilePath(path, v) ==
  IF ~IsStr(v) THEN InvalidType(path, "string", v)
  ELSE LET i1 == IF StrIsEmpty(v)
                 THEN <<Issue(path, "too_small", "File path cannot be empty")>>
                 ELSE <<>>
           i2 == IF ~StartsWithSlash(v)
                 THEN <<Issue(path, "custom", "File path must be absolute (start with '/')")>>
                 ELSE <<>>
       IN IF i1 \o i2 = <<>> THEN Valid(v) ELSE Dirty(v, i1 \o i2)

(***************************************************************************)
(* Composite schemas: arrays, tuples and objects.  Every member is parsed  *)
(* (so every member's issues are collected, in order); the composite is    *)
(* aborted if a member is, else dirty if a member is.                      *)
(***************************************************************************)
Arr(items) == [t |-> "array", items |-> items]

RECURSIVE ConcatIssues(_)
ConcatIssues(rs) ==
  IF rs = <<>> THEN <<>> ELSE Head(rs).issues \o ConcatIssues(Tail(rs))

MergeStatus(rs) ==
  IF \E i \in DOMAIN rs : rs[i].status = "aborted" THEN "aborted"
  ELSE IF \E i \in DOMAIN rs : rs[i].status = "dirty" THEN "dirty"
  ELSE "valid"

Merged(rs, value) ==
  [status |-> MergeStatus(rs),
   value |-> IF MergeStatus(rs) = "aborted" THEN Undef ELSE value,
   issues |-> ConcatIssues(rs)]

\* RecraftColorSchema: { rgb: [int 0..255, int 0..255, int 0..255] }
RecraftColorSchema(path, v) ==
  IF v.t # "object" THEN InvalidType(path, "object", v)
  ELSE LET p == path \o <<"rgb">>
           rgb == v.rgb
       IN IF rgb.t # "array" THEN InvalidType(p, "array", rgb)
          ELSE IF Len(rgb.items) < 3
          THEN Aborted(<<Issue(p, "too_small", "Array must contain at least 3 element(s)")>>)
          ELSE LET rs == [i \in 1..3 |->
                            ZNumber(p \o <<ToString(i - 1)>>, rgb.items[i], TRUE,
                                    MinChannel, MaxChannel)]
                   long == IF Len(rgb.items) > 3
                           THEN <<Dirty(Undef, <<Issue(p, "too_big", "Array must contain at most 3 element(s)")>>)>>
                           ELSE <<>>
               IN Merged(long \o rs,
                         [t |-> "object", rgb |-> Arr([i \in 1..3 |-> rs[i].value])])

\* z.array(RecraftColorSchema)
ColorArray(path, v) ==
  IF v.t # "array" THEN InvalidType(path, "array", v)
  ELSE LET rs == [i \in DOMAIN v.items |->
                    RecraftColorSchema(path \o <<ToString(i - 1)>>, v.items[i])]
       IN Merged(rs, Arr([i \in DOMAIN v.items |-> rs[i].value]))

\* RecraftControlsSchema
RecraftControlsSchema(path, v) ==
  IF v.t # "object" THEN InvalidType(path, "object", v)
  ELSE LET a == ZOptional(v.artistic_level,
                   ZNumber(path \o <<"artistic_level">>, v.artistic_level, FALSE,
                           MinArtistic, MaxArtistic))
           c == ZOptional(v.colors, ColorArray(path \o <<"colors">>, v.colors))
           b == ZOptional(v.background_color,
                   RecraftColorSchema(path \o <<"background_color">>, v.background_color))
           t == ZOptional(v.no_text, ZBoolean(path \o <<"no_text">>, v.no_text))
       IN Merged(<<a, c, b, t>>,
                 [t |-> "object", artistic_level |-> a.value, colors |-> c.value,
                  background_color |-> b.value, no_text |-> t.value])

\* z.array(BufferOrFileSchema).min(1, "At least one file is required")
FilesField(path, v) ==
  IF v.t # "array" THEN InvalidType(path, "array", v)
  ELSE LET rs == [i \in DOMAIN v.items |->
                    BufferOrFileSchema(path \o <<ToString(i - 1)>>, v.items[i])]
           short == IF Len(v.items) < 1
                    THEN <<Dirty(Undef, <<Issue(path, "too_small", "At least one file is required")>>)>>
                    ELSE <<>>
       IN Merged(short \o rs, Arr([i \in DOMAIN v.items |-> rs[i].value]))

(***************************************************************************)
(* Argument objects are functions from Keys to values; an absent key maps  *)
(* to Undef.  A z.object parses the keys of its shape in declaration order *)
(* and strips every other key from its output.                             *)
(***************************************************************************)
Keys ==
  {"model", "response_format", "prompt", "n", "strength", "style_id", "style",
   "substyle", "size", "negative_prompt", "controls", "save_to_disk",
   "file_path", "output_path", "filename", "image_url", "image_b64", "image",
   "mask", "file", "files"}

NoArgs == [k \in Keys |-> Undef]

ParseObject(shape, fr) ==
  LET rs == [i \in DOMAIN shape |-> fr[shape[i]]]
  IN Merged(rs, [k \in Keys |-> IF k \in Range(shape) THEN fr[k].value ELSE Undef])

\* The fields of each arguments schema, in the order zod parses them
\* (those of RecraftBaseArgsSchema first where the schema extends it).
Shape(schema) ==
  LET Base == <<"model", "response_format">>
  IN CASE schema = "GenerateImage" ->
            Base \o <<"prompt", "n", "style_id", "style", "substyle", "size",
                      "negative_prompt", "controls", "save_to_disk", "file_path">>
       [] schema = "ImageToImage" ->
            Base \o <<"image", "prompt", "strength", "n", "style_id", "style",
                      "substyle", "negative_prompt", "controls">>
       [] schema = "InpaintImage" ->
            Base \o <<"image", "mask", "prompt", "n", "style_id", "style",
                      "substyle", "negative_prompt">>
       [] schema = "ReplaceBackground" ->
            Base \o <<"image", "prompt", "n", "style_id", "style", "substyle",
                      "negative_prompt">>
       [] schema = "File" -> Base \o <<"file">>
       [] schema = "CreateStyle" -> <<"style", "files">>
       [] schema = "SaveImageToDisk" -> <<"image_url", "image_b64", "file_path">>

\* The field schemas shared by the image operations (RecraftBaseArgsSchema
\* and the fields every .extend() repeats).
CommonField(k, v) ==
  CASE k = "model" -> ZOptional(v, ZEnum(<<k>>, v, <<"recraftv2", "recraftv3">>))
    [] k = "response_format" -> ZOptional(v, ZEnum(<<k>>, v, <<"url", "b64_json">>))
    [] k = "prompt" -> ZStringMin1(<<k>>, v, "Prompt cannot be empty")
    [] k = "n" -> NField(v)
    [] k = "strength" -> StrengthField(v)
    [] k = "style_id" -> ZOptional(v, ZString(<<k>>, v))
    [] k = "style" -> ZOptional(v, ZEnum(<<k>>, v, RecraftStyleV3))
    [] k = "substyle" -> ZOptional(v, SubstyleField(<<k>>, v))
    [] k = "size" -> ZOptional(v, ZEnum(<<k>>, v, RecraftImageSize))
    [] k = "negative_prompt" -> ZOptional(v, ZString(<<k>>, v))
    [] k = "controls" -> ZOptional(v, RecraftControlsSchema(<<k>>, v))
    [] k = "save_to_disk" -> ZOptional(v, ZBoolean(<<k>>, v))
    [] k \in {"image", "mask", "file"} -> BufferOrFileSchema(<<k>>, v)

Truthy(v) ==
  CASE v.t = "boolean" -> v.b
    [] v.t = "string" -> ~StrIsEmpty(v)
    [] v.t = "number" -> v.m # 0
    [] v.t \in {"undefined", "nan"} -> FALSE
    [] OTHER -> TRUE

\* The refinement reporting the missing path at the path field instead.
SaveToDiskRefine_AtPathField(inner) ==
  IF inner.status = "aborted" THEN inner
  ELSE IF Truthy(inner.value["save_to_disk"]) /\ inner.value["file_path"] = Undef
  THEN Dirty(inner.value,
             inner.issues \o <<Issue(<<"file_path">>, "custom",
                                     "file_path is required when save_to_disk is true")>>)
  ELSE inner

\* The cross-field refinement of GenerateImageArgsSchema, reported at path
\* ["save_to_disk"]; a refinement is skipped when the object aborted.
SaveToDiskRefine(inner) ==
  IF inner.status = "aborted" THEN inner
  ELSE IF Truthy(inner.value["save_to_disk"]) /\ inner.value["file_path"] = Undef
  THEN Dirty(inner.value,
             inner.issues \o <<Issue(<<"save_to_disk">>, "custom",
                                     "file_path is required when save_to_disk is true")>>)
  ELSE inner

GenerateImageArgsSchema(data) ==
  SaveToDiskRefine(
    ParseObject(Shape("GenerateImage"),
      [k \in Range(Shape("GenerateImage")) |->
         IF k = "file_path"
         THEN ZOptional(data[k], GenerateFilePath(<<k>>, data[k]))
         ELSE CommonField(k, data[k])]))

ImageToImageArgsSchema(data) ==
  ParseObject(Shape("ImageToImage"),
    [k \in Range(Shape("ImageToImage")) |-> CommonField(k, data[k])])

InpaintImageArgsSchema(data) ==
  ParseObject(Shape("InpaintImage"),
    [k \in Range(Shape("InpaintImage")) |-> CommonField(k, data[k])])

ReplaceBackgroundArgsSchema(data) ==
  ParseObject(Shape("ReplaceBackground"),
    [k \in Range(Shape("ReplaceBackground")) |-> CommonField(k, data[k])])

\* VectorizeImage / RemoveBackground / CrispUpscale / CreativeUpscale
FileArgsSchema(data) ==
  ParseObject(Shape("File"), [k \in Range(Shape("File")) |-> CommonField(k, data[k])])

CreateStyleArgsSchema(data) ==
  ParseObject(Shape("CreateStyle"),
    [k \in Range(Shape("CreateStyle")) |->
       IF k = "style" THEN ZStringMin1(<<k>>, data[k], "Style name cannot be empty")
       ELSE FilesField(<<k>>, data[k])])

\* SaveImageToDiskArgsSchema, with its cross-field refinement reported at
\* path ["image_source"].
\* The refinement demanding both sources instead of at least one.
ImageSourceRefine_Both(inner) ==
  IF inner.status = "aborted" THEN inner
  ELSE IF inner.value["image_url"] = Undef \/ inner.value["image_b64"] = Undef
  THEN Dirty(inner.value,
             inner.issues \o <<Issue(<<"image_source">>, "custom",
                                     "Either image_url or image_b64 must be provided")>>)
  ELSE inner

\* The cross-field refinement of SaveImageToDiskArgsSchema.
ImageSourceRefine(inner) ==
  IF inner.status = "aborted" THEN inner
  ELSE IF inner.value["image_url"] = Undef /\ inner.value["image_b64"] = Undef
  THEN Dirty(inner.value,
             inner.issues \o <<Issue(<<"image_source">>, "custom",
                                     "Either image_url or image_b64 must be provided")>>)
  ELSE inner

SaveImageToDiskArgsSchema(data) ==
  ImageSourceRefine(
    ParseObject(Shape("SaveImageToDisk"),
      [k \in Range(Shape("SaveImageToDisk")) |->
         CASE k = "image_url" -> ZOptional(data[k], ZStringUrl(<<k>>, data[k]))
           [] k = "image_b64" -> ZOptional(data[k], ZString(<<k>>, data[k]))
           [] k = "file_path" -> SaveFilePath(<<k>>, data[k])]))

Tools ==
  {"generate_image", "image_to_image", "inpaint_image", "replace_background",
   "vectorize_image", "remove_background", "crisp_upscale", "creative_upscale",
   "create_style", "get_user_info", "save_image_to_disk"}

FileTools == {"vectorize_image", "remove_background", "crisp_upscale", "creative_upscale"}
MultiImageTools == {"generate_image", "image_to_image", "inpaint_image", "replace_background"}

\* The schema each tool is registered with and each handler validates with.
SchemaParse(tool, data) ==
  CASE tool = "generate_image" -> GenerateImageArgsSchema(data)
    [] tool = "image_to_image" -> ImageToImageArgsSchema(data)
    [] tool = "inpaint_image" -> InpaintImageArgsSchema(data)
    [] tool = "replace_background" -> ReplaceBackgroundArgsSchema(data)
    [] tool \in FileTools -> FileArgsSchema(data)
    [] tool = "create_style" -> CreateStyleArgsSchema(data)
    [] tool = "save_image_to_disk" -> SaveImageToDiskArgsSchema(data)
    [] tool = "get_user_info" -> Valid(NoArgs)

(***************************************************************************)
(* The validator (schemas/validation.ts).  Messages are kept as sequences  *)
(* of text segments; the rendered message is their concatenation.          *)
(***************************************************************************)
StyleNamed == {"style", "substyle", "style_id"}

ReceivedText(v) == IF IsTxt(v) THEN v.k ELSE v.t

\* formatZodError: one entry per issue, joined by "; ".
FormatIssue(issue) ==
  IF (\E i \in DOMAIN issue.path : issue.path[i] \in StyleNamed)
     /\ issue.code = "invalid_enum_value"
  THEN "Invalid style: \"" \o ReceivedText(issue.received)
       \o "\". Valid options are: " \o JoinWith(RecraftStyleV3, ", ")
  ELSE (IF issue.path # <<>> THEN JoinWith(issue.path, ".") \o ": " ELSE "")
       \o issue.message

\* formatZodError rendering the first issue only.
formatZodError_FirstOnly(issues) ==
  IF issues = <<>> THEN "" ELSE FormatIssue(issues[1])

formatZodError(issues) ==
  JoinWith([i \in DOMAIN issues |-> FormatIssue(issues[i])], "; ")

ValidationError(message, issues) ==
  [type |-> "ValidationError", msg |-> <<message>>, issues |-> issues]

\* validateSchema: the schema's output on success, a thrown ValidationError
\* (prefix, formatted issues, raw issues) otherwise.
ThrowUnlessSuccess(result, errorPrefix) ==
  IF result.status # "valid"
  THEN [ok |-> FALSE,
        error |-> ValidationError(errorPrefix \o ": " \o formatZodError(result.issues),
                                  result.issues)]
  ELSE [ok |-> TRUE, value |-> result.value]

validateSchema(tool, data, errorPrefix) ==
  ThrowUnlessSuccess(SchemaParse(tool, data), errorPrefix)

\* validateSchemaAs dropping the caller's prefix for the default one.
validateSchemaAs_DefaultPrefix(tool, data, errorPrefix) ==
  validateSchema(tool, data, "Validation error")

\* validateSchemaAs: validateSchema, its result cast to the caller's type
\* (the cast does nothing at run time).
validateSchemaAs(tool, data, errorPrefix) == validateSchema(tool, data, errorPrefix)

\* tryValidateSchema: [error message or null, value or null]
ErrorOrValue(result) ==
  IF result.status # "valid"
  THEN <<Txt(formatZodError(result.issues)), Undef>>
  ELSE <<Undef, result.value>>

tryValidateSchema(tool, data) == ErrorOrValue(SchemaParse(tool, data))

(***************************************************************************)
(* Errors.  An McpError's message is "MCP error <code>: " followed by the  *)
(* message it was constructed with.                                        *)
(***************************************************************************)
McpError(code, msg) == [type |-> "McpError", code |-> code, msg |-> msg]
JsError(msg) == [type |-> "Error", msg |-> msg]
TypeError(msg) == [type |-> "TypeError", msg |-> msg]
UserError(msg) == [type |-> "UserError", msg |-> msg]

MessageOf(e) ==
  IF e.type = "McpError"
  THEN <<"MCP error "
           \o (IF e.code = "InvalidParams" THEN "-32602" ELSE "-32603") \o ": ">>
         \o e.msg
  ELSE e.msg

(***************************************************************************)
(* ToolHandlers (tools/handlers.ts) and RecraftHandlers                    *)
(* (tools/recraft-handlers.ts).                                            *)
(***************************************************************************)
\* errorPrefix each ToolHandlers method passes to validateSchemaAs
ToolErrorPrefix(tool) ==
  CASE tool = "generate_image" -> "Invalid image generation parameters"
    [] tool = "image_to_image" -> "Invalid image-to-image parameters"
    [] tool = "inpaint_image" -> "Invalid inpainting parameters"
    [] tool = "replace_background" -> "Invalid background replacement parameters"
    [] tool = "vectorize_image" -> "Invalid vectorization parameters"
    [] tool = "remove_background" -> "Invalid background removal parameters"
    [] tool = "crisp_upscale" -> "Invalid crisp upscale parameters"
    [] tool = "creative_upscale" -> "Invalid creative upscale parameters"
    [] tool = "create_style" -> "Invalid style creation parameters"
    [] tool = "save_image_to_disk" -> "Invalid save image parameters"

\* message prefix of each ToolHandlers catch block
ToolFailurePrefix(tool) ==
  CASE tool = "image_to_image" -> "Failed to transform image: "
    [] tool = "inpaint_image" -> "Failed to inpaint image: "
    [] tool = "replace_background" -> "Failed to replace background: "
    [] tool = "vectorize_image" -> "Failed to vectorize image: "
    [] tool = "remove_background" -> "Failed to remove background: "
    [] tool = "crisp_upscale" -> "Failed to upscale image: "
    [] tool = "creative_upscale" -> "Failed to upscale image: "
    [] tool = "create_style" -> "Failed to create style: "
    [] tool = "get_user_info" -> "Failed to get user info: "
    [] tool = "save_image_to_disk" -> "Failed to save image: "

\* A catch block that rethrows whatever it caught.
ToolHandlersCatch_Rethrow(tool, e) == e

\* The catch block of a ToolHandlers method: an McpError passes through,
\* anything else becomes McpError(InvalidParams, ...).
ToolHandlersCatch(tool, e) ==
  IF e.type = "McpError" THEN e
  ELSE IF tool = "generate_image" THEN McpError("InvalidParams", MessageOf(e))
  ELSE McpError("InvalidParams", <<ToolFailurePrefix(tool)>> \o MessageOf(e))

\* The validation step that opens every ToolHandlers method with arguments.
ToolHandlersValidate(tool, args) ==
  validateSchemaAs(tool, args, ToolErrorPrefix(tool))

\* RecraftHandlers.validate<Tool>Args: the validated arguments, or
\* McpError(InvalidParams, message of the ValidationError).
AsInvalidParams(r) ==
  IF r.ok THEN r
  ELSE [ok |-> FALSE, error |-> McpError("InvalidParams", MessageOf(r.error))]

RecraftValidateArgs(tool, args) ==
  AsInvalidParams(validateSchemaAs(tool, args, "Validation error"))

(***************************************************************************)
(* The Disk Saver: RecraftHandlers.handleSaveImageToDisk and its           *)
(* ToolHandlers wrapper.  `io` is the outcome of the file system calls on  *)
(* a usable path ("ok" or "fail").  An outcome is                          *)
(*   [kind |-> "return", value, fs]    resolved, with the fs calls made    *)
(*   [kind |-> "throw", error, fs]     rejected                            *)
(*   [kind |-> "download", file, url, fs]  suspended on https.get          *)
(***************************************************************************)
Return(value, fs) == [kind |-> "return", value |-> value, fs |-> fs]
Throw(error, fs) == [kind |-> "throw", error |-> error, fs |-> fs]

\* image_b64.match(/^data:image\/([a-zA-Z]+);base64,/): the extension, or
\* <<>> without a match.  The literal parts of the prefix are single items
\* "data:image/" and ";base64," of the character sequence.
DataUriExt(s) ==
  IF Len(s) >= 3 /\ s[1] = "data:image/"
  THEN LET k == LetterPrefixLen(Tail(s))
       IN IF k >= 1 /\ Len(s) >= k + 2 /\ s[k + 2] = ";base64,"
          THEN SubSeq(s, 2, k + 1) ELSE <<>>
  ELSE <<>>

AlphaNum == Letters \cup Digits
RECURSIVE AlphaNumPrefixLen(_)
AlphaNumPrefixLen(s) ==
  IF s # <<>> /\ Head(s) \in AlphaNum THEN 1 + AlphaNumPrefixLen(Tail(s)) ELSE 0

\* image_url.match(/\.([a-zA-Z0-9]+)(?:\?.*)?$/): the extension, or <<>>.
UrlExtAt(s, i) ==
  LET r == AlphaNumPrefixLen(Drop(s, i))
  IN IF s[i] = "." /\ r >= 1 /\ (i + r = Len(s) \/ s[i + r + 1] = "?")
     THEN SubSeq(s, i + 1, i + r) ELSE <<>>

UrlExt(s) ==
  LET hits == {i \in DOMAIN s : UrlExtAt(s, i) # <<>>}
  IN IF hits = {} THEN <<>>
     ELSE UrlExtAt(s, CHOOSE i \in hits : \A j \in hits : i <= j)

OutputFile(dir, name, ext) == [dir |-> dir, name |-> name, ext |-> ext]

SavedValue(file) ==
  [success |-> TRUE, file_path |-> file,
   message |-> <<Txt("Image saved successfully to "), file>>]

\* RecraftHandlers.handleSaveImageToDisk from the destructuring of the
\* validated arguments on: the try block and its catch.
SaveValidated(value, io) ==
  LET image_url == value["image_url"]
      image_b64 == value["image_b64"]
      output_path == value["output_path"]
      filename == value["filename"]
      wrap(msg) == McpError("InternalError", <<"Error saving image: ">> \o msg)
      mkdir == [op |-> "mkdirSync", path |-> output_path]
  IN IF ~IsStr(output_path)
     THEN \* fs.mkdirSync(undefined, ...) throws a TypeError
          Throw(wrap(<<"The \"path\" argument must be of type string or an instance of Buffer or URL. Received undefined">>), <<>>)
     ELSE IF io = "fail"
     THEN Throw(wrap(<<"EACCES: permission denied, mkdir">>), <<>>)
     ELSE IF Truthy(image_b64)
     THEN LET m == DataUriExt(image_b64.s)
              file == OutputFile(output_path, filename,
                                 IF m # <<>> THEN m ELSE <<"p", "n", "g">>)
          IN Return(SavedValue(file),
                    <<mkdir, [op |-> "writeFileSync", path |-> file]>>)
     ELSE IF Truthy(image_url)
     THEN LET m == UrlExt(image_url.s)
              file == OutputFile(output_path, filename,
                                 IF m # <<>> THEN m ELSE <<"p", "n", "g">>)
          IN [kind |-> "download", file |-> file, url |-> image_url,
              fs |-> <<mkdir, [op |-> "createWriteStream", path |-> file]>>]
     ELSE Throw(wrap(MessageOf(McpError("InvalidParams",
                       <<"Either image_url or image_b64 must be provided">>))),
                <<mkdir>>)

SaveAfterValidation(v, io) ==
  IF ~v.ok THEN Throw(v.error, <<>>) ELSE SaveValidated(v.value, io)

\* RecraftHandlers.handleSaveImageToDisk
RecraftSaveImageToDisk(args, io) ==
  SaveAfterValidation(RecraftValidateArgs("save_image_to_disk", args), io)

\* ToolHandlers.handleSaveImageToDisk: v is the outcome of its own
\* validation, r the outcome of the RecraftHandlers call.
ToolSaveOutcome(v, r) ==
  IF ~v.ok THEN Throw(ToolHandlersCatch("save_image_to_disk", v.error), <<>>)
  ELSE IF r.kind = "throw"
  THEN Throw(ToolHandlersCatch("save_image_to_disk", r.error), r.fs)
  ELSE r

ToolSaveImageToDisk(args, io) ==
  ToolSaveOutcome(ToolHandlersValidate("save_image_to_disk", args),
                  RecraftSaveImageToDisk(args, io))

(***************************************************************************)
(* The upstream client (services/recraft/index.ts).                        *)
(***************************************************************************)
Endpoint(tool) ==
  CASE tool = "generate_image" -> "/v1/images/generations"
    [] tool = "image_to_image" -> "/v1/images/imageToImage"
    [] tool = "inpaint_image" -> "/v1/images/inpaint"
    [] tool = "replace_background" -> "/v1/images/replaceBackground"
    [] tool = "vectorize_image" -> "/v1/images/vectorize"
    [] tool = "remove_background" -> "/v1/images/removeBackground"
    [] tool = "crisp_upscale" -> "/v1/images/crispUpscale"
    [] tool = "creative_upscale" -> "/v1/images/creativeUpscale"
    [] tool = "create_style" -> "/v1/styles"
    [] tool = "get_user_info" -> "/v1/users/me"

ApiFailurePrefix(tool) ==
  CASE tool = "generate_image" -> "Failed to generate image: "
    [] tool = "image_to_image" -> "Failed to transform image: "
    [] tool = "inpaint_image" -> "Failed to inpaint image: "
    [] tool = "replace_background" -> "Failed to replace background: "
    [] tool = "vectorize_image" -> "Failed to vectorize image: "
    [] tool = "remove_background" -> "Failed to remove background: "
    [] tool = "crisp_upscale" -> "Failed to apply crisp upscale: "
    [] tool = "creative_upscale" -> "Failed to apply creative upscale: "
    [] tool = "create_style" -> "Failed to create style: "
    [] tool = "get_user_info" -> "Failed to get user information: "

\* toBlob: a Buffer is wrapped in a Blob, any other value is returned as
\* it is.
toBlob(value) == IF value.t = "buffer" THEN [t |-> "blob", of |-> value] ELSE value

\* value.toString() of a scalar
toString(v) ==
  CASE v.t = "number" -> Str(NumToStr(v))
    [] v.t = "nan" -> Str(<<"N", "a", "N">>)
    [] v.t = "boolean" -> Txt(IF v.b THEN "true" ELSE "false")
    [] v.t = "object" -> Txt("[object Object]")
    [] OTHER -> v

\* formData.append(name, value): a Blob makes a binary part, any other
\* value a text part.
Appended(name, value) ==
  IF value.t = "blob" THEN <<[name |-> name, kind |-> "binary", body |-> value.of]>>
  ELSE <<[name |-> name, kind |-> "text", body |-> value]>>

\* The body of the loop over Object.entries(args) in imageToImage,
\* inpaintImage and replaceBackground.
FormEntry(tool, key, value) ==
  IF key \in {"image", "mask"} THEN Appended(key, toBlob(value))
  ELSE IF tool = "image_to_image" /\ key = "controls"
  THEN (IF Truthy(value) THEN Appended(key, [t |-> "json", of |-> value]) ELSE <<>>)
  ELSE IF value # Undef THEN Appended(key, toString(value))
  ELSE <<>>

RECURSIVE FormEntries(_, _, _)
FormEntries(tool, args, keys) ==
  IF keys = <<>> THEN <<>>
  ELSE FormEntry(tool, Head(keys), args[Head(keys)])
         \o FormEntries(tool, args, Tail(keys))

\* The multipart form each RecraftApi method builds.
FormData(tool, args) ==
  CASE tool = "image_to_image" -> FormEntries(tool, args, Shape("ImageToImage"))
    [] tool = "inpaint_image" -> FormEntries(tool, args, Shape("InpaintImage"))
    [] tool = "replace_background" -> FormEntries(tool, args, Shape("ReplaceBackground"))
    [] tool \in FileTools ->
         Appended("file", toBlob(args["file"]))
           \o (IF Truthy(args["response_format"])
               THEN Appended("response_format", args["response_format"]) ELSE <<>>)
    [] tool = "create_style" ->
         Appended("style", args["style"])
           \o (IF args["files"].t = "array" /\ args["files"].items # <<>>
               THEN Appended("file1", toBlob(args["files"].items[1])) ELSE <<>>)
    [] OTHER -> <<>>

\* The request a RecraftApi method sends for validated arguments.
ApiRequest(tool, args) ==
  [endpoint |-> Endpoint(tool),
   form |-> FormData(tool, args),
   method |-> IF tool = "get_user_info" THEN "GET" ELSE "POST",
   encoding |-> IF tool = "generate_image" THEN "json"
                ELSE IF tool = "get_user_info" THEN "none" ELSE "multipart",
   args |-> args]

\* A RecraftApi method that throws on a non-success status without reading
\* the response body.
ApiResult_NoBody(tool, resp) ==
  IF ~resp.ok THEN Throw(JsError(<<ApiFailurePrefix(tool)>>), <<>>)
  ELSE Return(resp.json, <<>>)

\* What a RecraftApi method does with the response: throw on a non-success
\* status (the message carries the body text), else return the JSON.
ApiResult(tool, resp) ==
  IF ~resp.ok THEN Throw(JsError(<<ApiFailurePrefix(tool), resp.body>>), <<>>)
  ELSE Return(resp.json, <<>>)

(***************************************************************************)
(* Upstream responses and what the handlers and dispatchers make of them.  *)
(***************************************************************************)
Img(url, b64) == [url |-> url, b64_json |-> b64]

\* ToolHandlers.handle<Tool> once the upstream has answered: the client's
\* error goes through the catch block, the JSON is returned as is
\* (handleGetUserInfo wraps its JSON text in a content list).
HandlerResult(tool, resp) ==
  LET a == ApiResult(tool, resp)
  IN IF a.kind = "throw" THEN Throw(ToolHandlersCatch(tool, a.error), <<>>)
     ELSE IF tool = "get_user_info"
     THEN Return([content |-> <<[type |-> "text",
                                 text |-> <<[t |-> "json", of |-> a.value]>>]>>], <<>>)
     ELSE a

\* response.data?.[0]
FirstImage(response) ==
  IF "data" \in DOMAIN response /\ response.data.t = "array"
     /\ response.data.items # <<>>
  THEN response.data.items[1] ELSE Undef

Text(segments) == [type |-> "text", text |-> segments]
PngImage(data) == [type |-> "image", data |-> data, mimeType |-> Txt("image/png")]
\* imageContent({buffer}): the payload with the MIME type read off its
\* leading bytes ("/9j/" opens a base64 JPEG), image/png when none is
\* recognised.
imageContent(data) ==
  [type |-> "image", data |-> data,
   mimeType |-> IF ~IsTxt(data) /\ data.s # <<>> /\ Head(data.s) = "/9j/"
                THEN Txt("image/jpeg") ELSE Txt("image/png")]

Content(segments) == [content |-> segments]

\* An execute outcome additionally lists the Disk Saver calls it made, each
\* with the arguments passed and how the call ended.
SaverCall(args, sv) == [args |-> args, outcome |-> sv.kind]

Done(kind, payload, fs, saves) ==
  IF kind = "throw"
  THEN [kind |-> "throw", error |-> payload, fs |-> fs, saves |-> saves]
  ELSE [kind |-> kind, value |-> payload, fs |-> fs, saves |-> saves]

\* obj?.key
Prop(obj, key) == IF key \in DOMAIN obj THEN obj[key] ELSE Undef

\* The object execute passes to toolHandlers.handleSaveImageToDisk.
SaveArgs(imageData, args) ==
  [NoArgs EXCEPT !["image_url"] = Prop(imageData, "url"),
                 !["image_b64"] = Prop(imageData, "b64_json"),
                 !["output_path"] = args["output_path"],
                 !["filename"] = args["filename"]]

\* The save failure rewrapped by the outer catch as a processing failure.
SaveFailure_Rewrapped(sv) ==
  UserError(<<"Failed to process image generation: ">> \o MessageOf(sv.error))

\* The inner catch of execute: the Disk Saver's error as a UserError.
SaveFailure(sv) == UserError(<<"Failed to save image: ">> \o MessageOf(sv.error))

\* execute of the generate_image tool once the handler returned `response`;
\* sv is the outcome of the Disk Saver call, made only when wantsSave.
GenerateImageShaped(args, imageData, saveArgs, sv) ==
  LET wantsSave == Truthy(args["save_to_disk"]) /\ Truthy(args["output_path"])
                     /\ Truthy(args["filename"])
      saves == IF wantsSave THEN <<SaverCall(saveArgs, sv)>> ELSE <<>>
      fs == IF wantsSave THEN sv.fs ELSE <<>>
      successMessage ==
        IF Truthy(args["save_to_disk"])
        THEN <<Txt("Image generated and saved to: "), args["output_path"],
               Txt("/"), args["filename"]>>
        ELSE <<Txt("Image generated successfully")>>
  IN IF imageData = Undef
     THEN Done("throw", UserError(<<"Failed to generate image: No image data received">>),
               <<>>, <<>>)
     ELSE IF wantsSave /\ sv.kind = "throw"
     THEN Done("throw", SaveFailure(sv), fs, saves)
     ELSE IF wantsSave /\ sv.kind = "download"
     THEN [kind |-> "download", file |-> sv.file, url |-> sv.url, fs |-> fs,
           saves |-> saves]
     ELSE IF Truthy(imageData.b64_json)
     THEN Done("return", Content(<<Text(successMessage), PngImage(imageData.b64_json)>>),
               fs, saves)
     ELSE Done("return",
               Content(<<Text(successMessage \o <<Txt("\nImage URL: "), imageData.url>>)>>),
               fs, saves)

GenerateImageSave(args, saveArgs, io) ==
  GenerateImageShaped(args, saveArgs.imageData, saveArgs.args,
                      ToolSaveImageToDisk(saveArgs.args, io))

\* execute of the generate_image tool, from the return of
\* toolHandlers.handleGenerateImage (outcome h) on.
GenerateImageExecute(args, h, io) ==
  IF h.kind = "throw"
  THEN Done("throw", UserError(<<"Failed to process image generation: ">>
                                 \o MessageOf(h.error)), <<>>, <<>>)
  ELSE GenerateImageSave(args,
         [imageData |-> FirstImage(h.value),
          args |-> SaveArgs(FirstImage(h.value), args)], io)

\* execute answering with the URL even when a base64 payload is there.
MultiImageExecute_UrlFirst(h) ==
  IF h.kind = "throw" THEN Done("throw", h.error, <<>>, <<>>)
  ELSE IF FirstImage(h.value) = Undef
  THEN Done("throw", TypeError(<<"Cannot read properties of undefined (reading 'url')">>),
            <<>>, <<>>)
  ELSE Done("return", Content(<<Text(<<FirstImage(h.value).url>>)>>), <<>>, <<>>)

\* execute of image_to_image, inpaint_image and replace_background
MultiImageExecute(h) ==
  IF h.kind = "throw" THEN Done("throw", h.error, <<>>, <<>>)
  ELSE LET response == h.value
           first == FirstImage(response)
       IN IF first # Undef /\ Truthy(first.b64_json)
          THEN Done("return", imageContent(first.b64_json), <<>>, <<>>)
          ELSE IF ~("data" \in DOMAIN response /\ response.data.t = "array")
          THEN Done("throw", TypeError(<<"Cannot read properties of undefined (reading '0')">>),
                    <<>>, <<>>)
          ELSE IF first = Undef
          THEN Done("throw", TypeError(<<"Cannot read properties of undefined (reading 'url')">>),
                    <<>>, <<>>)
          ELSE Done("return", Content(<<Text(<<first.url>>)>>), <<>>, <<>>)

\* execute of vectorize_image, remove_background, crisp_upscale and
\* creative_upscale
SingleImageExecute(tool, h) ==
  IF h.kind = "throw" THEN Done("throw", h.error, <<>>, <<>>)
  ELSE LET image == IF "image" \in DOMAIN h.value THEN h.value.image ELSE Undef
       IN IF image = Undef
          THEN Done("throw",
                    TypeError(<<"Cannot read properties of undefined (reading '"
                                \o (IF tool = "vectorize_image" THEN "url" ELSE "b64_json")
                                \o "')">>), <<>>, <<>>)
          ELSE IF tool # "vectorize_image" /\ Truthy(image.b64_json)
          THEN Done("return", imageContent(image.b64_json), <<>>, <<>>)
          ELSE Done("return", Content(<<Text(<<image.url>>)>>), <<>>, <<>>)

\* execute of create_style and get_user_info
CreateStyleExecute(h) ==
  IF h.kind = "throw" THEN Done("throw", h.error, <<>>, <<>>)
  ELSE Done("return",
            Content(<<Text(<<Txt("Style created with ID: "), Prop(h.value, "id")>>)>>),
            <<>>, <<>>)

GetUserInfoExecute(h) ==
  IF h.kind = "throw" THEN Done("throw", h.error, <<>>, <<>>)
  ELSE Done("return",
            Content(<<Text(<<Txt("User: "), Prop(h.value, "name"), Txt(" ("),
                            Prop(h.value, "email"), Txt(")\nCredits: "),
                            Prop(h.value, "credits")>>)>>),
            <<>>, <<>>)

\* execute of save_image_to_disk, from the outcome sv of
\* toolHandlers.handleSaveImageToDisk(args) on.
SaveImageToDiskExecute(args, sv) ==
  IF sv.kind = "throw" THEN Done("throw", sv.error, sv.fs, <<SaverCall(args, sv)>>)
  ELSE IF sv.kind = "download"
  THEN [kind |-> "download", file |-> sv.file, url |-> sv.url, fs |-> sv.fs,
        saves |-> <<SaverCall(args, sv)>>]
  ELSE Done("return",
            Content(<<Text(<<Txt("Image saved to: "), sv.value.file_path>>)>>),
            sv.fs, <<SaverCall(args, sv)>>)

\* The tools registered on the server: execute from the handler outcome on.
ServerExecute(tool, args, h, io) ==
  CASE tool = "generate_image" -> GenerateImageExecute(args, h, io)
    [] tool \in MultiImageTools \ {"generate_image"} -> MultiImageExecute(h)
    [] tool \in FileTools -> SingleImageExecute(tool, h)
    [] tool = "create_style" -> CreateStyleExecute(h)
    [] tool = "get_user_info" -> GetUserInfoExecute(h)
    [] tool = "save_image_to_disk" -> SaveImageToDiskExecute(args, h)

\* The CallTool request handler of RecraftMcpServer: the handler's response
\* is returned as is; an McpError passes through, any other error becomes
\* McpError(InternalError).
LegacyCallTool(tool, args, h) ==
  LET saves == IF tool = "save_image_to_disk" THEN <<SaverCall(args, h)>> ELSE <<>>
  IN IF h.kind = "throw"
     THEN Done("throw",
               IF h.error.type = "McpError" THEN h.error
               ELSE McpError("InternalError", MessageOf(h.error)),
               h.fs, saves)
     ELSE IF h.kind = "download"
     THEN [kind |-> "download", file |-> h.file, url |-> h.url, fs |-> h.fs,
           saves |-> saves]
     ELSE Done("return", h.value, h.fs, saves)

Dispatch(en, tool, args, h, io) ==
  IF en = "server" THEN ServerExecute(tool, args, h, io)
  ELSE LegacyCallTool(tool, args, h)

(***************************************************************************)
(* The tool definitions advertised to a ListTools request                  *)
(* (tools/definitions.ts): the `required` list of each inputSchema and,    *)
(* for save_image_to_disk, its oneOf of required lists.                    *)
(***************************************************************************)
toolDefinitions(t) ==
  [required |->
     CASE t = "generate_image" -> {"prompt"}
       [] t = "image_to_image" -> {"image", "prompt", "strength"}
       [] t = "inpaint_image" -> {"image", "mask", "prompt"}
       [] t = "replace_background" -> {"image", "prompt"}
       [] t \in FileTools -> {"file"}
       [] t = "create_style" -> {"style", "files"}
       [] t = "get_user_info" -> {}
       [] t = "save_image_to_disk" -> {"output_path", "filename"},
   oneOf |->
     IF t = "save_image_to_disk" THEN {{"image_url"}, {"image_b64"}} ELSE {}]

\* JSON Schema validity of an arguments object against the advertised
\* required/oneOf rules: every required property is present, and when a
\* oneOf is given exactly one of its alternatives is satisfied.
SatisfiesInputSchema(def, a) ==
  /\ \A k \in def.required : a[k] # Undef
  /\ def.oneOf # {} =>
       Cardinality({alt \in def.oneOf : \A k \in alt : a[k] # Undef}) = 1

(***************************************************************************)
(* State.                                                                  *)
(*   One tool invocation: pc, entry, tool, rawArgs, execArgs, http,        *)
(*   upstream, disk, saver, result.  http lists the requests sent          *)
(*   upstream, disk the file system calls made, saver the argument         *)
(*   objects the Disk Saver was called with.                               *)
(*   One field validation (the validator used as a function): fpc, field,  *)
(*   fin, fres, fres2.                                                     *)
(*   Invocations in flight together: calls (one record per invocation),    *)
(*   net (the upstream requests awaiting their response, each tagged with  *)
(*   the invocation whose fetch sent it; `overlapped` in a call record     *)
(*   tells that another request was in flight when its own was sent) and   *)
(*   files (the file system calls made, each tagged with the invocation    *)
(*   that made it).                                                        *)
(***************************************************************************)
VARIABLES pc, entry, tool, rawArgs, execArgs, http, upstream, disk, saver,
          result, fpc, field, fin, fres, fres2, calls, net, files

callVars ==
  <<pc, entry, tool, rawArgs, execArgs, http, upstream, disk, saver, result>>
fieldVars == <<fpc, field, fin, fres, fres2>>
pairVars == <<calls, net, files>>
vars ==
  <<pc, entry, tool, rawArgs, execArgs, http, upstream, disk, saver, result,
    fpc, field, fin, fres, fres2, calls, net, files>>

None == [t |-> "none"]

CallIdle ==
  /\ pc = "idle" /\ entry = "none" /\ tool = "none"
  /\ rawArgs = NoArgs /\ execArgs = NoArgs
  /\ http = <<>> /\ upstream = None /\ disk = <<>> /\ saver = <<>>
  /\ result = None

FieldIdle ==
  /\ fpc = "idle" /\ field = "none" /\ fin = Undef /\ fres = None /\ fres2 = None

MaxInvocations == 2
Invocations == 1..MaxInvocations

IdleCall ==
  [pc |-> "idle", entry |-> "none", tool |-> "none", args |-> NoArgs,
   exec |-> NoArgs, io |-> "none", overlapped |-> FALSE, answered |-> 0,
   upstream |-> None, result |-> None]

PairIdle == calls = [i \in Invocations |-> IdleCall] /\ net = {} /\ files = <<>>

(***************************************************************************)
(* Spec: one tool invocation, from the request to its result.              *)
(***************************************************************************)
Entries == {"server", "legacy"}

HttpsUrl == Str(<<"h", "t", "t", "p", "s", ":", "/", "/", "a", ".", "p", "n", "g">>)
NoSchemeUrl == Str(<<"a", ".", "p", "n", "g">>)
RawB64 == Str(<<"A", "A">>)
JpegB64 == Str(<<"/9j/", "A">>)
DataUriB64 == Str(<<"data:image/", "p", "n", "g", ";base64,", "A">>)
AbsDir == Str(<<"/", "t">>)
RelDir == Str(<<"t">>)
Empty == Str(<<>>)

\* The arguments a client may send to tool t.
ArgsFor(t) ==
  LET Prompts == {Undef, Txt("cat")}
      Counts == {Undef, Num(3, 0), Str(<<"7">>), Str(<<"a">>)}
      Flags == {Undef, Bool(TRUE), Bool(FALSE)}
      FilePaths == {Undef, Empty, RelDir, AbsDir}
      OutputPaths == {Undef, AbsDir}
      Filenames == {Undef, Txt("img")}
      ImageUrls == {Undef, HttpsUrl, NoSchemeUrl}
      ImageB64s == {Undef, RawB64, DataUriB64}
      Files == {Undef, Buf, Txt("/in.png")}
      Strengths == {Undef, Num(5, 1), Str(<<"a">>)}
      Styles == {Undef, Txt("realistic_image"), Txt("cartoon")}
      Substyles == {Undef, Txt("hdr"), Txt("bogus")}
      ControlSets == {Undef, [t |-> "object", artistic_level |-> Num(2, 0),
                              colors |-> Undef, background_color |-> Undef,
                              no_text |-> Undef]}
  IN
  CASE t = "generate_image" ->
         {[NoArgs EXCEPT !["prompt"] = p, !["n"] = n, !["save_to_disk"] = sd,
                         !["file_path"] = fp, !["output_path"] = op,
                         !["filename"] = fn] :
            p \in Prompts, n \in Counts, sd \in Flags, fp \in FilePaths,
            op \in OutputPaths, fn \in Filenames}
    [] t = "image_to_image" ->
         {[NoArgs EXCEPT !["prompt"] = p, !["image"] = f, !["strength"] = st,
                         !["style"] = sty, !["substyle"] = sub,
                         !["controls"] = ctl] :
            p \in Prompts, f \in Files, st \in Strengths, sty \in Styles,
            sub \in Substyles, ctl \in ControlSets}
    [] t = "inpaint_image" ->
         {[NoArgs EXCEPT !["prompt"] = p, !["image"] = f, !["mask"] = m] :
            p \in Prompts, f \in Files, m \in Files}
    [] t = "replace_background" ->
         {[NoArgs EXCEPT !["prompt"] = p, !["image"] = f] :
            p \in Prompts, f \in Files}
    [] t \in FileTools ->
         {[NoArgs EXCEPT !["file"] = f] : f \in Files}
    [] t = "create_style" ->
         {[NoArgs EXCEPT !["style"] = sty, !["files"] = fs] :
            sty \in Styles, fs \in {Undef, Arr(<<Buf>>), Arr(<<>>)}}
    [] t = "get_user_info" -> {NoArgs}
    [] t = "save_image_to_disk" ->
         {[NoArgs EXCEPT !["image_url"] = u, !["image_b64"] = b,
                         !["file_path"] = fp, !["output_path"] = op,
                         !["filename"] = fn] :
            u \in ImageUrls, b \in ImageB64s, fp \in FilePaths,
            op \in OutputPaths, fn \in Filenames}

Images == {Img(HttpsUrl, Undef), Img(Undef, RawB64), Img(Undef, JpegB64)}

JsonFor(t) ==
  CASE t \in MultiImageTools ->
         {[data |-> Arr(<<i>>)] : i \in Images}
           \cup {[data |-> Arr(<<>>)], [data |-> Undef],
                 [data |-> Arr(<<Img(HttpsUrl, Undef), Img(Undef, RawB64)>>)]}
    [] t \in FileTools -> {[image |-> i] : i \in Images} \cup {[image |-> Undef]}
    [] t = "create_style" -> {[id |-> Txt("style-1")]}
    [] t = "get_user_info" ->
         {[name |-> Txt("Ann"), email |-> Txt("ann@example.com"),
           credits |-> Num(10, 0)]}

Responses(t) ==
  {[ok |-> TRUE, json |-> j] : j \in JsonFor(t)}
    \cup {[ok |-> FALSE, body |-> "quota exceeded"]}

IoOutcomes == {"ok", "fail"}

Init == CallIdle /\ FieldIdle /\ PairIdle

\* A client calls a tool with some arguments, through the FastMCP server or
\* through the CallTool handler of RecraftMcpServer.
Call ==
  /\ pc = "idle"
  /\ \E en \in Entries, t \in Tools :
       \E a \in ArgsFor(t) :
         /\ entry' = en /\ tool' = t /\ rawArgs' = a
  /\ pc' = "received"
  /\ UNCHANGED <<execArgs, http, upstream, disk, saver, result>>
  /\ UNCHANGED <<fieldVars, pairVars>>

Finish(out) ==
  /\ disk' = disk \o out.fs
  /\ saver' = saver \o out.saves
  /\ IF out.kind = "download"
     THEN pc' = "downloading" /\ result' = [outcome |-> "pending", file |-> out.file]
     ELSE IF out.kind = "throw"
     THEN pc' = "done" /\ result' = [outcome |-> "throw", error |-> out.error]
     ELSE pc' = "done" /\ result' = [outcome |-> "return", value |-> out.value]

\* The server validates the arguments against the tool's `parameters`
\* before execute runs.  On success execute receives the arguments; whether
\* those are the request's own object or the schema's output is the
\* transport's choice, so both are allowed.
HarnessValidate ==
  /\ pc = "received" /\ entry = "server"
  /\ \E parsed \in {SchemaParse(tool, rawArgs)} :
        IF parsed.status # "valid"
        THEN /\ Finish(Done("throw",
                            McpError("InvalidParams",
                                     <<"Invalid " \o tool \o " parameters">>),
                            <<>>, <<>>))
             /\ UNCHANGED execArgs
        ELSE /\ execArgs' \in {rawArgs, parsed.value}
             /\ pc' = "execute"
             /\ UNCHANGED <<disk, saver, result>>
  /\ UNCHANGED <<entry, tool, rawArgs, http, upstream>>
  /\ UNCHANGED <<fieldVars, pairVars>>

\* The CallTool handler hands request.params.arguments to the handler of
\* the named tool.
LegacyRoute ==
  /\ pc = "received" /\ entry = "legacy"
  /\ execArgs' = rawArgs
  /\ pc' = "execute"
  /\ UNCHANGED <<entry, tool, rawArgs, http, upstream, disk, saver, result>>
  /\ UNCHANGED <<fieldVars, pairVars>>

\* ToolHandlers.handle<Tool>(args) up to its first suspension: validation in
\* ToolHandlers (outcome v1), validation again in RecraftHandlers (outcome
\* v2), then the upstream request.
\* The handler with its validation results ignored: the request goes out
\* whatever the validator said.
HandlerValidated_Unchecked(t, v1, v2) ==
  [kind |-> "fetch",
   request |-> ApiRequest(t, IF v2.ok THEN v2.value ELSE NoArgs)]

HandlerValidated(t, v1, v2) ==
  IF ~v1.ok THEN Throw(ToolHandlersCatch(t, v1.error), <<>>)
  ELSE IF ~v2.ok THEN Throw(ToolHandlersCatch(t, v2.error), <<>>)
  ELSE [kind |-> "fetch", request |-> ApiRequest(t, v2.value)]

\* save_image_to_disk runs the Disk Saver instead; get_user_info takes no
\* arguments and validates nothing.
HandlerEntry(t, args, io) ==
  IF t = "save_image_to_disk" THEN ToolSaveImageToDisk(args, io)
  ELSE IF t = "get_user_info"
  THEN [kind |-> "fetch", request |-> ApiRequest(t, NoArgs)]
  ELSE HandlerValidated(t, ToolHandlersValidate(t, args), RecraftValidateArgs(t, args))

HandlerStart ==
  /\ pc = "execute"
  /\ \E io \in IoOutcomes :
       \E h \in {HandlerEntry(tool, execArgs, io)} :
         IF h.kind = "fetch"
         THEN /\ http' = Append(http, h.request)
              /\ pc' = "awaitUpstream"
              /\ UNCHANGED <<disk, saver, result>>
         ELSE /\ Finish(Dispatch(entry, tool, execArgs, h, io))
              /\ UNCHANGED http
  /\ UNCHANGED <<entry, tool, rawArgs, execArgs, upstream>>
  /\ UNCHANGED <<fieldVars, pairVars>>

\* The upstream answers; the handler returns or throws, and the dispatcher
\* shapes the result (for generate_image this includes the optional save).
UpstreamRespond ==
  /\ pc = "awaitUpstream"
  /\ \E resp \in Responses(tool), io \in IoOutcomes :
       \E out \in {Dispatch(entry, tool, execArgs, HandlerResult(tool, resp), io)} :
         /\ upstream' = resp
         /\ Finish(out)
  /\ UNCHANGED <<entry, tool, rawArgs, execArgs, http>>
  /\ UNCHANGED <<fieldVars, pairVars>>

Next == Call \/ HarnessValidate \/ LegacyRoute \/ HandlerStart \/ UpstreamRespond

Spec == Init /\ [][Next]_vars

(***************************************************************************)
(* SpecField: the validator applied to one numeric field of a schema.      *)
(***************************************************************************)
\* The values tried in a numeric field: the numbers m / 10^e, the strings
\* over a small alphabet, and a few values of other types.
FieldInputs ==
  LET NumAlphabet == {"0", "5", "7", ".", "-", "a", " "}
      Strings == UNION {[1..k -> NumAlphabet] : k \in 0..MaxStrLen}
      Numbers == {Num(m, e) : m \in (-MaxMant)..MaxMant, e \in 0..MaxFrac}
  IN Numbers \cup {Str(str) : str \in Strings} \cup {Undef, NaN, Bool(TRUE)}

NumericFields == {"n", "strength", "artistic_level", "channel"}
NumberOrStringFields == {"n", "strength"}

Color(r, g, b) == [t |-> "object", rgb |-> Arr(<<r, g, b>>)]
Controls(a, c, b, nt) ==
  [t |-> "object", artistic_level |-> a, colors |-> c, background_color |-> b,
   no_text |-> nt]

\* The operation whose schema declares the field, and well-formed arguments
\* of that operation carrying value v in the field.
FieldTool(f) == IF f = "strength" THEN "image_to_image" ELSE "generate_image"

FieldArgs(f, v) ==
  CASE f = "n" -> [NoArgs EXCEPT !["prompt"] = Txt("cat"), !["n"] = v]
    [] f = "strength" ->
         [NoArgs EXCEPT !["prompt"] = Txt("cat"), !["image"] = Buf, !["strength"] = v]
    [] f = "artistic_level" ->
         [NoArgs EXCEPT !["prompt"] = Txt("cat"),
                        !["controls"] = Controls(v, Undef, Undef, Undef)]
    [] f = "channel" ->
         [NoArgs EXCEPT !["prompt"] = Txt("cat"),
                        !["controls"] = Controls(Undef, Undef,
                                                 Color(v, Num(0, 0), Num(255, 0)), Undef)]

\* The field's value in the normalized output.
FieldOut(f, value) ==
  CASE f = "n" -> value["n"]
    [] f = "strength" -> value["strength"]
    [] f = "artistic_level" -> value["controls"].artistic_level
    [] f = "channel" -> value["controls"].background_color.rgb.items[1]

FieldParse(f, v) == SchemaParse(FieldTool(f), FieldArgs(f, v))

\* Re-validation of an accepted output: the whole normalized object goes
\* through the same schema again.
FieldReparse(f, r) == SchemaParse(FieldTool(f), r.value)

InitField ==
  /\ CallIdle /\ PairIdle
  /\ fpc = "input"
  /\ field \in NumericFields
  /\ fin \in FieldInputs
  /\ fres = None /\ fres2 = None

\* validateSchema(schema, args) on the chosen input
FieldValidate ==
  /\ fpc = "input"
  /\ fres' = FieldParse(field, fin)
  /\ fpc' = "validated"
  /\ UNCHANGED <<field, fin, fres2>>
  /\ UNCHANGED <<callVars, pairVars>>

\* the same field supplied in its string form String(v)
FieldValidateStringForm ==
  /\ fpc = "validated"
  /\ IsNum(fin)
  /\ field \in NumberOrStringFields
  /\ fres2' = FieldParse(field, Str(NumToStr(fin)))
  /\ fpc' = "compared"
  /\ UNCHANGED <<field, fin, fres>>
  /\ UNCHANGED <<callVars, pairVars>>

\* the accepted output validated a second time
FieldRevalidate ==
  /\ fpc = "validated"
  /\ fres.status = "valid"
  /\ fres2' = FieldReparse(field, fres)
  /\ fpc' = "revalidated"
  /\ UNCHANGED <<field, fin, fres>>
  /\ UNCHANGED <<callVars, pairVars>>

NextField == FieldValidate \/ FieldValidateStringForm \/ FieldRevalidate

SpecField == InitField /\ [][NextField]_vars

(***************************************************************************)
(* SpecPair: several invocations in flight together.  One instance of      *)
(* ToolHandlers, RecraftHandlers and RecraftApi serves them all; an        *)
(* invocation runs from its arrival to its first suspension (the upstream  *)
(* fetch) without interruption, and again from the response to its end.    *)
(***************************************************************************)
PairTools == {"generate_image", "save_image_to_disk"}

PairArgsFor(t) ==
  IF t = "generate_image"
  THEN {[NoArgs EXCEPT !["prompt"] = p] : p \in {Undef, Txt("cat")}}
  ELSE {[NoArgs EXCEPT !["image_url"] = u, !["image_b64"] = b,
                       !["file_path"] = AbsDir, !["output_path"] = AbsDir,
                       !["filename"] = Txt("img")] :
          u \in {Undef, HttpsUrl}, b \in {Undef, RawB64}}

PairResponses ==
  {[ok |-> TRUE, json |-> [data |-> Arr(<<Img(HttpsUrl, Undef)>>)]],
   [ok |-> TRUE, json |-> [data |-> Arr(<<Img(Undef, RawB64)>>)]],
   [ok |-> FALSE, body |-> "quota exceeded"]}

\* A response resuming the other invocation's continuation.
Receiver_Other(m) == CHOOSE j \in Invocations : j # m.owner

\* `await fetch(...)`: the response resumes the continuation of the call
\* that sent the request.
Receiver(m) == m.owner

\* what an invocation ends with
ResultOf(out) ==
  IF out.kind = "download" THEN [outcome |-> "pending", file |-> out.file]
  ELSE IF out.kind = "throw" THEN [outcome |-> "throw", error |-> out.error]
  ELSE [outcome |-> "return", value |-> out.value]

\* the FastMCP server rejecting arguments its `parameters` schema refuses
HarnessRejected(t) ==
  Done("throw", McpError("InvalidParams", <<"Invalid " \o t \o " parameters">>),
       <<>>, <<>>)

Settle(i, c, out, m, resp) ==
  /\ calls' = [calls EXCEPT ![i] =
                 [c EXCEPT !.pc = IF out.kind = "download" THEN "downloading" ELSE "done",
                           !.answered = m, !.upstream = resp,
                           !.result = ResultOf(out)]]
  /\ files' = files \o [k \in DOMAIN out.fs |-> [owner |-> i, call |-> out.fs[k]]]

\* Invocation i arrives and runs to its first suspension: validation by the
\* server (or routing by the CallTool handler), the handler's validation,
\* and then either its end or the upstream request.
Arrive(i, c, parsed) ==
  IF c.entry = "server" /\ parsed.status # "valid"
  THEN Settle(i, c, HarnessRejected(c.tool), 0, None) /\ UNCHANGED net
  ELSE \E x \in (IF c.entry = "server" THEN {c.args, parsed.value} ELSE {c.args}) :
         \E h \in {HandlerEntry(c.tool, x, c.io)} :
           IF h.kind = "fetch"
           THEN /\ calls' = [calls EXCEPT ![i] =
                               [c EXCEPT !.pc = "awaitUpstream", !.exec = x,
                                         !.overlapped = (net # {})]]
                /\ net' = net \cup {[owner |-> i, request |-> h.request]}
                /\ UNCHANGED files
           ELSE /\ Settle(i, [c EXCEPT !.exec = x],
                           Dispatch(c.entry, c.tool, x, h, c.io), 0, None)
                /\ UNCHANGED net

PStart(i) ==
  /\ calls[i].pc = "idle"
  /\ \E en \in Entries, t \in PairTools, io \in IoOutcomes :
       \E a \in PairArgsFor(t) :
         Arrive(i, [IdleCall EXCEPT !.entry = en, !.tool = t, !.args = a, !.io = io],
                SchemaParse(t, a))
  /\ UNCHANGED <<callVars, fieldVars>>

\* The upstream answers a request in flight; the invocation it resumes
\* runs to its end.
PRespond(i) ==
  /\ calls[i].pc = "awaitUpstream"
  /\ \E m \in net, resp \in PairResponses :
       /\ Receiver(m) = i
       /\ net' = net \ {m}
       /\ Settle(i, calls[i],
                 Dispatch(calls[i].entry, calls[i].tool, calls[i].exec,
                          HandlerResult(calls[i].tool, resp), calls[i].io),
                 m.owner, resp)
  /\ UNCHANGED <<callVars, fieldVars>>

InitPair == CallIdle /\ FieldIdle /\ PairIdle

NextPair == \E i \in Invocations : PStart(i) \/ PRespond(i)

SpecPair == InitPair /\ [][NextPair]_vars

(***************************************************************************)
(* Properties.                                                             *)
(***************************************************************************)
IsValidationFailure(res) ==
  /\ res.outcome = "throw"
  /\ res.error.type = "McpError"
  /\ res.error.code = "InvalidParams"

RejectedWithoutEffect(parsed) ==
  parsed.status # "valid" =>
    /\ http = <<>> /\ disk = <<>>
    /\ pc \notin {"awaitUpstream", "downloading"}
    /\ pc = "done" => IsValidationFailure(result)

\* C1: for every tool that takes arguments, arguments that fail schema
\* validation end the invocation with a validation error (InvalidParams),
\* and no upstream request and no file system call is made at any point of
\* that invocation.
C1_ValidationPrecedesUpstream ==
  (pc # "idle" /\ tool # "get_user_info") =>
    RejectedWithoutEffect(SchemaParse(tool, rawArgs))

\* C1 witness: an invocation with a missing prompt has ended with the
\* validation error.
C1_Witness ==
  /\ pc = "done" /\ entry = "legacy" /\ tool = "generate_image"
  /\ rawArgs["prompt"] = Undef
  /\ IsValidationFailure(result)
  /\ http = <<>>

SameOutcome(a, b, f) ==
  \/ a.status # "valid" /\ b.status # "valid"
  \/ /\ a.status = "valid" /\ b.status = "valid"
     /\ FieldOut(f, a.value) = FieldOut(f, b.value)

\* C2: for n and strength and every number v, the string form of v has the
\* same validation outcome as v: both accepted with the same number, or
\* both rejected.
C2_StringFormSameOutcome ==
  fpc = "compared" => SameOutcome(fres, fres2, field)

\* C2 witness: a number and its string form have both been validated.
C2_Witness ==
  /\ fpc = "compared" /\ field = "n" /\ fin = Num(7, 0)
  /\ fres.status # "valid" /\ fres2.status = "valid"

\* what the field's string branch makes of a string
FieldStringParse(f, str) == IF f = "n" THEN ParseInt(str) ELSE ParseFloat(str)

\* C3: a string that does not parse to a number in n or strength makes
\* validation fail, and validation never succeeds with a not-a-number
\* value in such a field.
C3_NonNumericStringRejected ==
  (fpc = "validated" /\ field \in NumberOrStringFields) =>
    /\ (IsStr(fin) /\ FieldStringParse(field, fin.s) = NaN) => fres.status # "valid"
    /\ fres.status = "valid" => FieldOut(field, fres.value) # NaN

\* C3 witness: a non-numeric string has been validated in field n.
C3_Witness ==
  /\ fpc = "validated" /\ field = "n" /\ fin = Str(<<"a">>)
  /\ fres.status = "valid"

InRange(f, v) ==
  CASE f = "n" -> IsNum(v) /\ NumIsInt(v) /\ NumGE(v, MinN) /\ NumLE(v, MaxN)
    [] f = "strength" -> IsNum(v) /\ NumGE(v, MinStrength) /\ NumLE(v, MaxStrength)
    [] f = "artistic_level" ->
         IsNum(v) /\ NumGE(v, MinArtistic) /\ NumLE(v, MaxArtistic)
    [] f = "channel" ->
         IsNum(v) /\ NumIsInt(v) /\ NumGE(v, MinChannel) /\ NumLE(v, MaxChannel)

\* C4: whenever validation succeeds, a supplied n is an integer in 1..6, a
\* supplied strength is in 0..1, a supplied artistic level is in 0..5 and a
\* supplied RGB channel is an integer in 0..255, whether it came as a
\* number or as a string.
C4_AcceptedValuesInRange ==
  (fpc = "validated" /\ fin # Undef /\ fres.status = "valid") =>
    InRange(field, FieldOut(field, fres.value))

\* C4 witness: a string holding an out-of-range count has been accepted.
C4_Witness ==
  /\ fpc = "validated" /\ field = "n" /\ fin = Str(<<"7">>)
  /\ fres.status = "valid"

\* C5: validating an accepted, normalized value again through the same
\* schema succeeds and returns the identical value.
C5_Idempotent ==
  fpc = "revalidated" => (fres2.status = "valid" /\ fres2.value = fres.value)

\* C5 witness: an accepted output has been validated a second time and
\* rejected.
C5_Witness ==
  /\ fpc = "revalidated" /\ field = "strength" /\ fin = Str(<<"5">>)
  /\ fres2.status # "valid"

HasIssueAt(r, path) == \E i \in DOMAIN r.issues : r.issues[i].path = path

C6Requires(a, r) ==
  (a["save_to_disk"] = Bool(TRUE) /\ a["file_path"] = Undef) =>
    /\ r.status # "valid"
    /\ HasIssueAt(r, <<"save_to_disk">>)
    /\ ~HasIssueAt(r, <<"file_path">>)

C6RequiresWhenEvaluated(a, r) ==
  (a["save_to_disk"] = Bool(TRUE) /\ a["file_path"] = Undef) =>
    /\ r.status # "valid"
    /\ r.status = "dirty" => HasIssueAt(r, <<"save_to_disk">>)
    /\ ~HasIssueAt(r, <<"file_path">>)

C6NotRequired(a, r) ==
  (a["save_to_disk"] \in {Undef, Bool(FALSE)} /\ a["file_path"] = Undef) =>
    /\ ~HasIssueAt(r, <<"save_to_disk">>)
    /\ ~HasIssueAt(r, <<"file_path">>)
    /\ (a["prompt"] = Txt("cat") /\ a["n"] \in {Undef, Num(3, 0)}) => r.status = "valid"

C6Checked(a, r) == C6RequiresWhenEvaluated(a, r) /\ C6NotRequired(a, r)

C7Requested(a) ==
  /\ a["prompt"] = Txt("cat") /\ a["n"] \in {Undef, Num(3, 0)}
  /\ a["save_to_disk"] = Bool(TRUE)
  /\ a["output_path"] = AbsDir /\ a["filename"] = Txt("img")
  /\ a["file_path"] \in {Undef, AbsDir}

SavedOnceAsRequested(a) ==
  /\ Len(saver) = 1
  /\ saver[1].args["output_path"] = a["output_path"]
  /\ saver[1].args["filename"] = a["filename"]
  /\ saver[1].args["image_url"] = Prop(FirstImage(upstream.json), "url")
  /\ saver[1].args["image_b64"] = Prop(FirstImage(upstream.json), "b64_json")

\* C7: generate_image called through the server with save_to_disk true, an
\* absolute output_path and a non-empty filename is accepted by validation
\* and, when it returns its success result, the Disk Saver has been called
\* exactly once with the image's URL or base64 payload and the requested
\* output_path and filename.
C7_SaveInvokedOnce ==
  (entry = "server" /\ tool = "generate_image" /\ C7Requested(rawArgs)) =>
    /\ pc = "done" => ~IsValidationFailure(result)
    /\ (pc = "done" /\ result.outcome = "return") => SavedOnceAsRequested(rawArgs)

GenerateDone == pc = "done" /\ entry = "server" /\ tool = "generate_image"

\* C8: in generate_image, when the upstream returned an image and the Disk
\* Saver call then failed, the invocation fails with "Failed to save
\* image: ...", a message no generation failure carries, and exactly one
\* upstream request was made.
C8_SaveFailureDistinct ==
  /\ (GenerateDone /\ saver # <<>> /\ saver[1].outcome = "throw") =>
       /\ result.outcome = "throw"
       /\ result.error.type = "UserError"
       /\ result.error.msg[1] = "Failed to save image: "
       /\ upstream.ok /\ Len(http) = 1 /\ Len(saver) = 1
  /\ (GenerateDone /\ saver = <<>> /\ result.outcome = "throw") =>
       result.error.msg[1] # "Failed to save image: "
  /\ tool = "generate_image" => Len(http) <= 1

\* C8 witness: the upstream returned an image and the save that followed
\* failed.
C8_Witness ==
  /\ GenerateDone
  /\ saver # <<>> /\ saver[1].outcome = "throw"
  /\ upstream.ok /\ Len(http) = 1
  /\ result.outcome = "throw"

C9Rejected(a, r) ==
  (a["image_url"] = Undef /\ a["image_b64"] = Undef) => r.status # "valid"

C9Accepted(a, r) ==
  (a["image_url"] # Undef \/ a["image_b64"] # Undef) => r.status = "valid"

C9AcceptedWellFormed(a, r) ==
  /\ ((a["image_url"] # Undef \/ a["image_b64"] # Undef)
        /\ (a["image_url"] = Undef \/ IsUrl(a["image_url"]))) => r.status = "valid"
  /\ (a["image_url"] # Undef /\ ~IsUrl(a["image_url"])) =>
       (r.status # "valid" /\ HasIssueAt(r, <<"image_url">>))

SaveWithDestination ==
  pc = "received" /\ tool = "save_image_to_disk" /\ rawArgs["file_path"] = AbsDir

\* C9 as stated: save_image_to_disk arguments with a valid file_path are
\* rejected when neither image_url nor image_b64 is present and accepted
\* when one or both are present.
C9_SourcePresent ==
  SaveWithDestination =>
    /\ C9Rejected(rawArgs, SchemaParse(tool, rawArgs))
    /\ C9Accepted(rawArgs, SchemaParse(tool, rawArgs))

\* C9 amended: save_image_to_disk arguments with a valid file_path are
\* rejected when neither image_url nor image_b64 is present, and accepted
\* when one or both are present and image_url, if present, is a well-formed
\* URL; a present image_url that is no URL is rejected at image_url.
C9_ImageSourceRequired ==
  SaveWithDestination =>
    /\ C9Rejected(rawArgs, SchemaParse(tool, rawArgs))
    /\ C9AcceptedWellFormed(rawArgs, SchemaParse(tool, rawArgs))

\* C9 witness: arguments with a file_path and only image_b64 have passed
\* the server's validation.
C9_Witness ==
  /\ pc = "execute" /\ entry = "server" /\ tool = "save_image_to_disk"
  /\ rawArgs["file_path"] = AbsDir
  /\ rawArgs["image_url"] = Undef /\ rawArgs["image_b64"] = RawB64

BothSources(a) == a["image_url"] = HttpsUrl /\ a["image_b64"] # Undef

\* C10: save_image_to_disk executed with both image_url and image_b64
\* present attempts the URL download (and no base64 write), and reports
\* that download's result.
C10_UrlTakesPriority ==
  (tool = "save_image_to_disk" /\ pc \in {"done", "downloading"}
     /\ rawArgs["file_path"] = AbsDir /\ BothSources(rawArgs)) =>
    /\ pc = "downloading"
    /\ \E i \in DOMAIN disk : disk[i].op = "createWriteStream"
    /\ \A i \in DOMAIN disk : disk[i].op # "writeFileSync"

\* the content segments of a result
Segments(v) == IF "content" \in DOMAIN v THEN v.content ELSE <<v>>

HasImageSegment(v, payload) ==
  \E i \in DOMAIN Segments(v) :
    Segments(v)[i].type = "image" /\ Segments(v)[i].data = payload

HasPngSegment(v, payload) ==
  \E i \in DOMAIN Segments(v) :
    /\ Segments(v)[i].type = "image" /\ Segments(v)[i].data = payload
    /\ Segments(v)[i].mimeType = Txt("image/png")

HasTextWith(v, item) ==
  \E i \in DOMAIN Segments(v) :
    /\ Segments(v)[i].type = "text"
    /\ \E j \in DOMAIN Segments(v)[i].text : Segments(v)[i].text[j] = item

\* a multi-image tool called through the server has returned a result for
\* an upstream response with a first image entry
MultiImageReturned ==
  /\ pc = "done" /\ entry = "server" /\ tool \in MultiImageTools
  /\ result.outcome = "return"

C11Shaped(first, v, png) ==
  IF Truthy(first.b64_json)
  THEN IF png THEN HasPngSegment(v, first.b64_json)
       ELSE HasImageSegment(v, first.b64_json)
  ELSE HasTextWith(v, first.url)

SingleImageReturned ==
  /\ pc = "done" /\ entry = "server" /\ tool \in FileTools
  /\ result.outcome = "return"

C12Shaped(image, v) ==
  IF Truthy(image.b64_json)
  THEN Len(Segments(v)) = 1 /\ HasImageSegment(v, image.b64_json)
  ELSE v = Content(<<Text(<<image.url>>)>>)

\* C12: a single-image result (vectorize_image, remove_background,
\* crisp_upscale, creative_upscale) is an inline-image segment when the
\* returned image object carries a base64 payload, and otherwise a text
\* segment whose text is exactly the image URL.
C12_InlineOrExactUrl ==
  SingleImageReturned => C12Shaped(upstream.json.image, result.value)

\* C12 witness: vectorize_image has returned for an image object that
\* carries a base64 payload and no URL.
C12_Witness ==
  /\ SingleImageReturned /\ tool = "vectorize_image"
  /\ upstream.json.image = Img(Undef, RawB64)
  /\ result.value = Content(<<Text(<<Undef>>)>>)

\* a multi-image tool called through the server has finished after the
\* upstream answered successfully without a first image entry
NoFirstImage ==
  /\ pc = "done" /\ entry = "server" /\ tool \in MultiImageTools
  /\ upstream # None /\ upstream.ok
  /\ FirstImage(upstream.json) = Undef

NoImageDataError(res) ==
  /\ res.outcome = "throw"
  /\ res.error.type = "UserError"
  /\ res.error.msg = <<"Failed to generate image: No image data received">>

\* C13: for every multi-image operation, when the upstream answers
\* successfully without a first image entry (empty or missing list), the
\* invocation fails with the explicit "No image data received" error,
\* never with a null-dereference failure and never with a success result.
C13_NoImageDataExplicit ==
  NoFirstImage => NoImageDataError(result)

\* C13 witness: image_to_image has failed with a TypeError on an empty
\* image list.
C13_Witness ==
  /\ NoFirstImage /\ tool = "image_to_image"
  /\ upstream.json.data = Arr(<<>>)
  /\ result.outcome = "throw" /\ result.error.type = "TypeError"

\* get_user_info has returned after the upstream answered with a user
\* record
UserInfoReturned ==
  /\ pc = "done" /\ tool = "get_user_info"
  /\ upstream # None /\ upstream.ok
  /\ result.outcome = "return"

\* the text item carries the value: it is the value, or the JSON rendering
\* of a record with that value in a field
ItemCarries(item, val) ==
  \/ item = val
  \/ item.t = "json" /\ \E k \in DOMAIN item.of : item.of[k] = val

TextCarries(v, val) ==
  \E i \in DOMAIN Segments(v) :
    /\ Segments(v)[i].type = "text"
    /\ \E j \in DOMAIN Segments(v)[i].text : ItemCarries(Segments(v)[i].text[j], val)

\* C14: get_user_info, when the upstream returns a user record with name,
\* email and credits, yields a text segment that contains those three
\* values of the upstream record.
C14_UserInfoCarried ==
  UserInfoReturned =>
    /\ TextCarries(result.value, upstream.json.name)
    /\ TextCarries(result.value, upstream.json.email)
    /\ TextCarries(result.value, upstream.json.credits)

\* C14 witness: get_user_info called through the server has returned a
\* text whose three placeholders are all undefined.
C14_Witness ==
  /\ UserInfoReturned /\ entry = "server"
  /\ result.value = Content(<<Text(<<Txt("User: "), Undef, Txt(" ("), Undef,
                                     Txt(")\nCredits: "), Undef>>)>>)

IsInternalFailure(res) ==
  /\ res.outcome = "throw"
  /\ res.error.type = "McpError"
  /\ res.error.code = "InternalError"

\* the invocation ended after a non-success upstream response
UpstreamRejected == pc = "done" /\ upstream # None /\ ~upstream.ok

\* the invocation ended after a successful upstream response that lacks the
\* image data the tool reads
UpstreamDataMissing ==
  /\ pc = "done" /\ upstream # None /\ upstream.ok
  /\ \/ tool \in MultiImageTools /\ FirstImage(upstream.json) = Undef
     \/ tool \in FileTools /\ upstream.json.image = Undef

\* the invocation ended after the Disk Saver, given arguments its schema
\* accepts (parsed), failed
DiskFailed(parsed) ==
  /\ pc = "done" /\ saver # <<>> /\ saver[1].outcome = "throw"
  /\ parsed.status = "valid"

ValidationFailed(parsed) == pc = "done" /\ parsed.status # "valid"

C15UpstreamKept == UpstreamRejected => ~IsValidationFailure(result)
C15MissingKept == UpstreamDataMissing => ~IsValidationFailure(result)
C15DiskKept ==
  saver # <<>> =>
    (DiskFailed(SchemaParse("save_image_to_disk", saver[1].args))
       => ~IsValidationFailure(result))
C15ValidationKept ==
  ValidationFailed(SchemaParse(tool, rawArgs)) => ~IsInternalFailure(result)

\* C15: every error kind crosses the dispatcher with its kind preserved: a
\* failure that began as an upstream non-success response, as missing data
\* or as a disk I/O failure is never reported under the code for invalid
\* arguments, and a validation failure is never reported under the code for
\* internal failures.
C15_KindPreserved ==
  /\ C15UpstreamKept
  /\ C15MissingKept
  /\ C15DiskKept
  /\ C15ValidationKept

\* C15 witness: image_to_image has ended with InvalidParams after the
\* upstream answered with a non-success status.
C15_Witness ==
  /\ UpstreamRejected /\ tool = "image_to_image"
  /\ IsValidationFailure(result)
  /\ result.error.msg = <<"Failed to transform image: ", "Failed to transform image: ",
                          "quota exceeded">>

MessageCarries(msg, body) == \E i \in DOMAIN msg : msg[i] = body

\* C16: a non-success HTTP status makes the upstream client method fail
\* with an error whose message carries the response body text, the failure
\* reaches the caller as a failure, and within one tool invocation at most
\* one request is sent to the upstream API (no retry after a failure).
C16_FailsWithBodyOnce ==
  /\ Len(http) <= 1
  /\ UpstreamRejected =>
       /\ result.outcome = "throw"
       /\ MessageCarries(result.error.msg, upstream.body)
       /\ Len(http) = 1

\* C16 witness: create_style has failed after its single request was
\* answered with a non-success status.
C16_Witness ==
  /\ UpstreamRejected /\ tool = "create_style"
  /\ Len(http) = 1 /\ http[1].endpoint = Endpoint("create_style")
  /\ result.outcome = "throw"
  /\ MessageCarries(result.error.msg, "quota exceeded")

\* The constraints of tool t's schema that arguments a violate, each named
\* by the path it is reported at: a missing required field, a file_path
\* that is empty or relative, and the cross-field rule of the schema.
MissingRequired(t, a) ==
  {<<k>> : k \in {k \in {"prompt", "image", "mask", "file"} :
                    /\ t # "save_image_to_disk" /\ t # "create_style"
                    /\ k \in Range(Shape(
                         CASE t = "generate_image" -> "GenerateImage"
                           [] t = "image_to_image" -> "ImageToImage"
                           [] t = "inpaint_image" -> "InpaintImage"
                           [] t = "replace_background" -> "ReplaceBackground"
                           [] OTHER -> "File"))
                    /\ a[k] = Undef}}

BadFilePath(t, a) ==
  IF t \in {"generate_image", "save_image_to_disk"} /\ a["file_path"] \in {Empty, RelDir}
  THEN {<<"file_path">>} ELSE {}

CrossFieldViolated(t, a) ==
  IF t = "generate_image" /\ a["save_to_disk"] = Bool(TRUE) /\ a["file_path"] = Undef
  THEN {<<"save_to_disk">>}
  ELSE IF t = "save_image_to_disk" /\ a["image_url"] = Undef /\ a["image_b64"] = Undef
  THEN {<<"image_source">>}
  ELSE {}

PathEntry(issue) == JoinWith(issue.path, ".") \o ": " \o issue.message

StyleEntry(issue) ==
  IF issue.code = "invalid_enum_value" /\ issue.path = <<"style">>
  THEN "Invalid style: \"" \o ReceivedText(issue.received)
       \o "\". Valid options are: any, realistic_image, digital_illustration, "
       \o "vector_illustration, icon, logo_raster"
  ELSE PathEntry(issue)

\* the error thrown for the issues: the combined message and the issue list
C17Rendered(r, thrown, special) ==
  r.status # "valid" =>
    /\ ~thrown.ok
    /\ thrown.error.issues = r.issues
    /\ thrown.error.msg =
         <<"Validation error: "
             \o JoinWith([i \in DOMAIN r.issues |->
                            IF special THEN StyleEntry(r.issues[i])
                            ELSE PathEntry(r.issues[i])], "; ")>>

C17Reported(t, a, r, always) ==
  /\ \A path \in MissingRequired(t, a) \cup BadFilePath(t, a) : HasIssueAt(r, path)
  /\ \A path \in CrossFieldViolated(t, a) :
       (always \/ r.status = "dirty") => HasIssueAt(r, path)
  /\ (MissingRequired(t, a) \cup BadFilePath(t, a) \cup CrossFieldViolated(t, a)) # {}
       => r.status # "valid"

C17Checked(t, a, r, asStated) ==
  /\ C17Reported(t, a, r, asStated)
  /\ C17Rendered(r, ThrowUnlessSuccess(r, "Validation error"), ~asStated)

Validating == pc = "received" /\ tool # "get_user_info"

C17TwoIssues(r) ==
  /\ Len(r.issues) = 2
  /\ HasIssueAt(r, <<"file_path">>) /\ HasIssueAt(r, <<"image_source">>)

StyleEnumFailed(a, k) ==
  /\ IsTxt(a[k])
  /\ a[k].k \notin
       (IF k = "style" THEN Range(RecraftStyleV3)
        ELSE Range(RealisticImageSubstyleV3) \cup Range(DigitalIllustrationSubstyleV3)
               \cup Range(VectorIllustrationSubstyleV3) \cup Range(LogoRasterSubstyleV3))

InvalidStyleMessage(received) ==
  "Invalid style: \"" \o received
    \o "\". Valid options are: any, realistic_image, digital_illustration, "
    \o "vector_illustration, icon, logo_raster"

C18Rendered(a, r, k) ==
  StyleEnumFailed(a, k) =>
    /\ r.status # "valid"
    /\ \E i \in DOMAIN r.issues :
         /\ r.issues[i].path = <<k>>
         /\ FormatIssue(r.issues[i]) = InvalidStyleMessage(a[k].k)

C18Checked(a, r) == C18Rendered(a, r, "style") /\ C18Rendered(a, r, "substyle")

\* C18: an enum-membership failure on style or substyle, in any operation,
\* is rendered as 'Invalid style: "<received>". Valid options are: '
\* followed by any, realistic_image, digital_illustration,
\* vector_illustration, icon, logo_raster, comma-separated in that order.
C18_InvalidStyleMessage ==
  (Validating /\ tool \in MultiImageTools) =>
    C18Checked(rawArgs, SchemaParse(tool, rawArgs))

C18UnionIssue(r) ==
  \E i \in DOMAIN r.issues :
    /\ r.issues[i].path = <<"substyle">>
    /\ r.issues[i].code = "invalid_union"
    /\ FormatIssue(r.issues[i]) = "substyle: Invalid input"

\* C18 witness: image_to_image arguments with substyle "bogus" are being
\* validated and the failure is rendered as "substyle: Invalid input".
C18_Witness ==
  /\ Validating /\ tool = "image_to_image"
  /\ rawArgs["substyle"] = Txt("bogus")
  /\ C18UnionIssue(SchemaParse(tool, rawArgs))

\* the required fields of each operation as the tool surface lists them
RequiredFields(t) ==
  CASE t = "generate_image" -> {"prompt"}
    [] t = "image_to_image" -> {"image", "prompt", "strength"}
    [] t = "inpaint_image" -> {"image", "mask", "prompt"}
    [] t = "replace_background" -> {"image", "prompt"}
    [] t \in FileTools -> {"file"}
    [] t = "create_style" -> {"style", "files"}
    [] t = "save_image_to_disk" -> {"output_path", "filename"}
    [] OTHER -> {}

NamesField(r, k) ==
  \E i \in DOMAIN r.issues :
    /\ r.issues[i].path = <<k>>
    /\ FormatIssue(r.issues[i]) = k \o ": " \o r.issues[i].message

C19Checked(t, a, r) ==
  \A k \in RequiredFields(t) :
    a[k] = Undef => (r.status # "valid" /\ NamesField(r, k))

\* C19: for every operation and every required field of it (prompt; image,
\* prompt, strength; image, mask, prompt; file; style, files; output_path,
\* filename), arguments missing that field fail validation and the combined
\* error message names the missing field.
C19_MissingFieldNamed ==
  Validating => C19Checked(tool, rawArgs, SchemaParse(tool, rawArgs))

C19Accepted(r) == r.status = "valid"

\* C19 witness: save_image_to_disk arguments without output_path and
\* filename are being validated, and the schema accepts them.
C19_Witness ==
  /\ Validating /\ tool = "save_image_to_disk"
  /\ rawArgs["output_path"] = Undef /\ rawArgs["filename"] = Undef
  /\ C19Accepted(SchemaParse(tool, rawArgs))

IsAbsolutePath(v) == IsStr(v) /\ ~IsTxt(v) /\ v.s # <<>> /\ Head(v.s) = "/"

PathTools == {"generate_image", "save_image_to_disk"}

\* accepted arguments carry no file_path or an absolute one
C20AcceptedAbsolute(a, r) ==
  r.status = "valid" => (a["file_path"] = Undef \/ IsAbsolutePath(a["file_path"]))

\* an empty or relative file_path is rejected at file_path, and the
\* invocation ends as a validation failure with no directory created, no
\* file written, no download started and no upstream request sent
C20RejectedEarly(a, r) ==
  (a["file_path"] # Undef /\ ~IsAbsolutePath(a["file_path"])) =>
    /\ r.status # "valid"
    /\ HasIssueAt(r, <<"file_path">>)
    /\ disk = <<>> /\ http = <<>> /\ pc \notin {"awaitUpstream", "downloading"}
    /\ pc = "done" => IsValidationFailure(result)

C20Checked(a, r) == C20AcceptedAbsolute(a, r) /\ C20RejectedEarly(a, r)

RejectedForMissing(a, r) ==
  \E i \in DOMAIN r.issues :
    \/ r.issues[i].path = <<"image_source">>
    \/ Len(r.issues[i].path) = 1 /\ a[r.issues[i].path[1]] = Undef

C21Agree(def, a, r) ==
  /\ SatisfiesInputSchema(def, a) => ~RejectedForMissing(a, r)
  /\ r.status = "valid" => SatisfiesInputSchema(def, a)

\* C21: for every tool the advertised parameter schema and the validator
\* agree on the required fields and on the combinations of image-source
\* fields: arguments satisfying the advertised required/oneOf rules are not
\* rejected by validation for a missing field, and arguments the validator
\* accepts satisfy the advertised rules.
C21_AdvertisedMatchesValidator ==
  pc = "received" =>
    C21Agree(toolDefinitions(tool), rawArgs, SchemaParse(tool, rawArgs))

C21MissingFilePath(r) == r.status # "valid" /\ HasIssueAt(r, <<"file_path">>)

\* C21 witness: save_image_to_disk arguments that satisfy the advertised
\* schema (output_path, filename and one image source) are rejected by the
\* validator for the missing file_path.
C21_Witness ==
  /\ pc = "received" /\ tool = "save_image_to_disk"
  /\ SatisfiesInputSchema(toolDefinitions(tool), rawArgs)
  /\ rawArgs["file_path"] = Undef
  /\ C21MissingFilePath(SchemaParse(tool, rawArgs))

\* the extension the saved file is to carry: the one of the data-URI
\* prefix, else the trailing extension of the URL, else png
ExpectedExt(a) ==
  IF a["image_b64"] # Undef /\ DataUriExt(a["image_b64"].s) # <<>>
  THEN DataUriExt(a["image_b64"].s)
  ELSE IF a["image_url"] # Undef /\ UrlExt(a["image_url"].s) # <<>>
  THEN UrlExt(a["image_url"].s)
  ELSE <<"p", "n", "g">>

\* save_image_to_disk, called through the CallTool handler with a
\* destination folder, a file name and arguments the schema accepts
\* (parsed), has ended
SaveRequested(parsed) ==
  /\ pc = "done" /\ entry = "legacy" /\ tool = "save_image_to_disk"
  /\ rawArgs["output_path"] = AbsDir /\ rawArgs["filename"] = Txt("img")
  /\ parsed.status = "valid"

SavedAs(res, file) == res.outcome = "return" /\ res.value.file_path = file

FileSystemRefused(res) ==
  /\ res.outcome = "throw"
  /\ MessageCarries(res.error.msg, "EACCES: permission denied, mkdir")

\* C22: the Disk Saver saves the image under the requested folder and name
\* with the extension taken from the data:image/<ext>;base64, prefix of the
\* payload when there is one, else from the trailing extension of the URL
\* when a URL is given, else png (unless the file system refuses).
C22_ExtensionByPriority ==
  SaveRequested(SchemaParse(tool, rawArgs)) =>
    \/ SavedAs(result, OutputFile(AbsDir, Txt("img"), ExpectedExt(rawArgs)))
    \/ FileSystemRefused(result)

\* C22 witness: a save of a payload with a data:image/png;base64, prefix
\* has ended in the failure of fs.mkdirSync(undefined).
C22_Witness ==
  /\ SaveRequested(SchemaParse(tool, rawArgs))
  /\ rawArgs["image_b64"] = DataUriB64 /\ rawArgs["image_url"] = Undef
  /\ IsInternalFailure(result)
  /\ result.error.msg[1] = "Error saving image: "
  /\ disk = <<>>

\* what invocation c ends with when it runs alone with the same entry,
\* tool, arguments, file system outcome and upstream answer
AloneFrom(c, parsed) ==
  IF c.entry = "server" /\ parsed.status # "valid"
  THEN ResultOf(HarnessRejected(c.tool))
  ELSE IF c.upstream = None
  THEN ResultOf(Dispatch(c.entry, c.tool, c.exec,
                         HandlerEntry(c.tool, c.exec, c.io), c.io))
  ELSE ResultOf(Dispatch(c.entry, c.tool, c.exec,
                         HandlerResult(c.tool, c.upstream), c.io))

Alone(c) == AloneFrom(c, SchemaParse(c.tool, c.args))

\* no file system call of one invocation touches a path another invocation
\* made a call on
FilesApart ==
  \A k, l \in DOMAIN files :
    files[k].call.path = files[l].call.path => files[k].owner = files[l].owner

SameValidation(as, plain) ==
  /\ as.ok = plain.ok
  /\ plain.ok => as.value = plain.value
  /\ ~plain.ok =>
       /\ as.error.type = "ValidationError"
       /\ as.error.msg = plain.error.msg
       /\ as.error.issues = plain.error.issues

\* C25: validateSchemaAs behaves exactly as validateSchema: for every
\* schema, input and error prefix both return the same normalized value or
\* both fail with a ValidationError carrying the same message and the same
\* issue list.
C25_ValidateAsSameAsValidate ==
  Validating =>
    \A prefix \in {"Validation error", ToolErrorPrefix(tool)} :
      SameValidation(validateSchemaAs(tool, rawArgs, prefix),
                     validateSchema(tool, rawArgs, prefix))

\* the failure lists two issues or more, under another prefix than the
\* default one
C25Failed(as) ==
  /\ ~as.ok /\ Len(as.error.issues) >= 2
  /\ as.error.msg # ThrowUnlessSuccess(Dirty(NoArgs, as.error.issues),
                                       "Validation error").error.msg

\* C25 witness: validateSchemaAs is applied with the handler's own prefix to
\* inpaint_image arguments that violate two constraints, and fails with a
\* message under that prefix.
C25_Witness ==
  /\ Validating /\ tool = "inpaint_image"
  /\ rawArgs["prompt"] = Undef /\ rawArgs["mask"] = Undef
  /\ C25Failed(validateSchemaAs(tool, rawArgs, ToolErrorPrefix(tool)))

FormTools == {"image_to_image", "inpaint_image", "replace_background"}

PartsNamed(form, k) == {i \in DOMAIN form : form[i].name = k}

OnePart(form, k, kind) ==
  /\ Cardinality(PartsNamed(form, k)) = 1
  /\ \A i \in PartsNamed(form, k) : form[i].kind = kind

StringFormOf(v) ==
  CASE v.t = "number" -> Str(NumToStr(v))
    [] v.t = "nan" -> Str(<<"N", "a", "N">>)
    [] v.t = "boolean" -> Txt(IF v.b THEN "true" ELSE "false")
    [] OTHER -> v

C26Omitted(form, v) ==
  \A k \in Keys : v[k] = Undef => PartsNamed(form, k) = {}

C26Scalars(form, v) ==
  \A k \in Keys \ {"image", "mask", "file", "controls"} :
    v[k] # Undef =>
      /\ OnePart(form, k, "text")
      /\ \A i \in PartsNamed(form, k) : form[i].body = StringFormOf(v[k])

C26Binary(form, v) ==
  \A k \in {"image", "mask", "file"} : v[k] # Undef => OnePart(form, k, "binary")

C26Controls(form, v) ==
  v["controls"] # Undef =>
    /\ OnePart(form, "controls", "text")
    /\ \A i \in PartsNamed(form, "controls") :
         form[i].body = [t |-> "json", of |-> v["controls"]]

C26Built(form, v) ==
  C26Omitted(form, v) /\ C26Scalars(form, v) /\ C26Binary(form, v) /\ C26Controls(form, v)

\* C26: in every multipart request of image_to_image, inpaint_image and
\* replace_background a field whose validated value is undefined is not
\* appended, every present scalar field is appended once in string form,
\* the binary fields (image, mask) are appended as binary parts, and a
\* present controls object is appended as its JSON string.
C26_MultipartFields ==
  (http # <<>> /\ tool \in FormTools) =>
    C26Built(http[1].form, SchemaParse(tool, execArgs).value)

\* C26 witness: image_to_image has sent its request for an image given as a
\* string path, and the image part of the form is a text part.
C26_Witness ==
  /\ http # <<>> /\ tool = "image_to_image"
  /\ rawArgs["image"] = Txt("/in.png") /\ rawArgs["controls"] # Undef
  /\ OnePart(http[1].form, "image", "text")
  /\ OnePart(http[1].form, "controls", "text")

ClaimsSaved(v) == TextCarries(v, Txt("Image generated and saved to: "))

SavedTo(output_path, filename) ==
  \E i \in DOMAIN saver :
    /\ saver[i].outcome = "return"
    /\ saver[i].args["output_path"] = output_path
    /\ saver[i].args["filename"] = filename

\* C27: a generate_image result whose text says the image was saved to a
\* destination is returned only when, in that invocation, the Disk Saver
\* was called for that destination and completed successfully; when no
\* save was performed the result does not claim one.
C27_SavedOnlyIfSaved ==
  (GenerateDone /\ result.outcome = "return" /\ ClaimsSaved(result.value)) =>
    SavedTo(execArgs["output_path"], execArgs["filename"])

\* C27 witness: generate_image with save_to_disk true and a file_path has
\* returned a result that says the image was saved although the Disk Saver
\* was not called.
C27_Witness ==
  /\ GenerateDone /\ result.outcome = "return"
  /\ rawArgs["save_to_disk"] = Bool(TRUE) /\ rawArgs["file_path"] = AbsDir
  /\ ClaimsSaved(result.value)
  /\ saver = <<>>

IncludesMessage(msg, inner) ==
  \E i \in 1..Len(msg) :
    i + Len(inner) - 1 <= Len(msg) /\ SubSeq(msg, i, i + Len(inner) - 1) = inner

\* h is the outcome of a ToolHandlers method and cause the outcome of the
\* step inside it that failed.
C29Wrapped(h, cause) ==
  (h.kind = "throw" /\ ~cause.ok) =>
    /\ h.error.type = "McpError"
    /\ IncludesMessage(h.error.msg, cause.error.msg)

C29Protocol(h) == h.kind = "throw" => h.error.type = "McpError"

UpstreamCause(a) ==
  IF a.kind = "throw" THEN [ok |-> FALSE, error |-> a.error] ELSE [ok |-> TRUE]

C29AtStart(io) ==
  /\ C29Protocol(HandlerEntry(tool, execArgs, io))
  /\ tool # "get_user_info" =>
       C29Wrapped(HandlerEntry(tool, execArgs, io),
                  validateSchema(tool, execArgs, ToolErrorPrefix(tool)))

C29AtResponse ==
  /\ C29Protocol(HandlerResult(tool, upstream))
  /\ C29Wrapped(HandlerResult(tool, upstream), UpstreamCause(ApiResult(tool, upstream)))

C29AtSave(io) ==
  \A i \in DOMAIN saver :
    /\ C29Protocol(ToolSaveImageToDisk(saver[i].args, io))
    /\ C29Wrapped(ToolSaveImageToDisk(saver[i].args, io),
                  validateSchema("save_image_to_disk", saver[i].args,
                                 ToolErrorPrefix("save_image_to_disk")))

\* C29: every failure that leaves a ToolHandlers method -- on validation,
\* on the upstream's answer, or in the Disk Saver -- is an McpError whose
\* message includes the message of the error that caused it; no
\* ValidationError, upstream Error or other exception leaves the method.
C29_OnlyMcpErrorsLeave ==
  /\ pc = "execute" => \A io \in IoOutcomes : C29AtStart(io)
  /\ upstream # None => C29AtResponse
  /\ \A io \in IoOutcomes : C29AtSave(io)

\* C29 witness: create_style called through the CallTool handler was
\* rejected by the upstream, and the handler's failure is an McpError that
\* carries the upstream error's message.
C29_Witness ==
  /\ pc = "done" /\ entry = "legacy" /\ tool = "create_style"
  /\ upstream # None /\ ~upstream.ok
  /\ HandlerResult(tool, upstream).kind = "throw"
  /\ HandlerResult(tool, upstream).error.type = "McpError"
  /\ IncludesMessage(HandlerResult(tool, upstream).error.msg,
                     ApiResult(tool, upstream).error.msg)

SchemaOfTool(t) ==
  CASE t = "generate_image" -> "GenerateImage"
    [] t = "image_to_image" -> "ImageToImage"
    [] t = "inpaint_image" -> "InpaintImage"
    [] t = "replace_background" -> "ReplaceBackground"
    [] t \in FileTools -> "File"
    [] t = "create_style" -> "CreateStyle"

Declared(t) == Range(Shape(SchemaOfTool(t)))

RequestSent == http # <<>> /\ tool # "get_user_info"

C30Normalized(sent, parsed) == parsed.status = "valid" /\ sent = parsed.value

C30Stripped(sent) == \A k \in Keys \ Declared(tool) : sent[k] = Undef

C30Numbers(sent) ==
  \A k \in NumberOrStringFields : sent[k] # Undef => sent[k].t = "number"

\* C30: the arguments handed to the upstream client are the output of
\* validation and not the caller's input: keys the operation's schema does
\* not declare are not forwarded, and the numeric-or-string fields (n,
\* strength) are forwarded as numbers.
C30_NormalizedForwarded ==
  RequestSent =>
    /\ C30Normalized(http[1].args, SchemaParse(tool, rawArgs))
    /\ C30Stripped(http[1].args)
    /\ C30Numbers(http[1].args)

\* C30 witness: generate_image was called through the CallTool handler with
\* an undeclared output_path and n given as the string "a"; the request
\* sent upstream carries no output_path and carries n as NaN.
C30_Witness ==
  /\ RequestSent /\ entry = "legacy" /\ tool = "generate_image"
  /\ rawArgs["output_path"] = AbsDir /\ http[1].args["output_path"] = Undef
  /\ rawArgs["n"] = Str(<<"a">>) /\ http[1].args["n"] = NaN

====
